---------------------------- MODULE Spec2Model ----------------------------
(***************************************************************************)
(* A model of the session lifecycle core of the repository:                *)
(*   - SessionStateManager  (src/src/ubie/agent/session_state_manager.py)  *)
(*   - AgentTools           (src/src/ubie/agent/agent_tools.py)            *)
(* Text (file names, paths, session ids) is modelled as sequences of       *)
(* one-character strings, so that substring, prefix and path-component     *)
(* operations are computed the way the Python code computes them.          *)
(***************************************************************************)
EXTENDS Integers, Sequences, FiniteSets, TLC

VARIABLES
    sessions,   \* SessionStateManager.sessions: session id -> record (or NoSession)
    disk,       \* per session id: the session directory and its config.json
    files,      \* the other regular files on disk: absolute path -> attributes
    clock,      \* datetime.now(): it advances by one with every mutating call
    call,       \* the operation applied and its arguments
    ret,        \* what the operation returned
    fsops,      \* the file-system probes made by the last facade call, in order
    lock,       \* SessionStateManager._lock: the thread holding it, or NoThread
    pc,         \* per thread: the position inside the operation it runs
    frame,      \* per thread: the operation's arguments and local variables
    db,         \* the conversation store: the rows of its two tables
    memory_lock, \* ConversationMemory._lock: the thread holding it, or NoThread
    instance    \* SessionStateManager._instance: how far its construction has come

vars ==
    <<sessions, disk, files, clock, call, ret, fsops, lock, pc, frame, db, memory_lock,
      instance>>

---------------------------------------------------------------------------
(* Bounds of the model *)

MaxNameLen == 2
MaxPathLen == 5
MaxClock == 3
MaxConcOps == 2
MaxLogCalls == 52
MaxAppends == 2
MaxViewOps == 2
MaxForged == 2
MaxQueryLen == 3
MaxPathOps == 3
MaxNewCalls == 2
MaxGenCalls == 2
MaxLockCalls == 2

---------------------------------------------------------------------------
(* Text helpers: Python str operations on sequences of characters *)

StrsUpTo(A, n) == UNION {[1..k -> A] : k \in 0..n}

\* sub in s
Contains(s, sub) ==
    \E i \in 0..(Len(s) - Len(sub)) : SubSeq(s, i + 1, i + Len(sub)) = sub

\* s.startswith(p)
StartsWith(s, p) == Len(s) >= Len(p) /\ SubSeq(s, 1, Len(p)) = p

\* s.endswith(p)
EndsWith(s, p) == Len(s) >= Len(p) /\ SubSeq(s, Len(s) - Len(p) + 1, Len(s)) = p

\* s.rfind(c) as a 1-based index, 0 when c does not occur
RFind(s, c) ==
    IF \E i \in 1..Len(s) : s[i] = c
    THEN CHOOSE i \in 1..Len(s) : s[i] = c /\ \A j \in (i + 1)..Len(s) : s[j] # c
    ELSE 0

\* c.upper() for the letters the model uses
UpperChar(c) ==
    CASE c = "a" -> "A" [] c = "c" -> "C" [] c = "o" -> "O" [] c = "n" -> "N"
      [] c = "m" -> "M" [] c = "p" -> "P" [] c = "r" -> "R" [] c = "t" -> "T"
      [] c = "x" -> "X" [] c = "e" -> "E" [] c = "s" -> "S" [] c = "d" -> "D"
      [] c = "w" -> "W" [] c = "b" -> "B" [] c = "f" -> "F" [] c = "g" -> "G"
      [] c = "i" -> "I" [] c = "j" -> "J" [] c = "u" -> "U" [] c = "l" -> "L"
      [] OTHER -> c

Upper(s) == [i \in 1..Len(s) |-> UpperChar(s[i])]

\* s.split(sep) for a one-character separator
RECURSIVE Split(_, _)
Split(s, sep) ==
    IF \A i \in 1..Len(s) : s[i] # sep
    THEN <<s>>
    ELSE LET k == CHOOSE i \in 1..Len(s) : s[i] = sep /\ \A j \in 1..(i - 1) : s[j] # sep
         IN  <<SubSeq(s, 1, k - 1)>> \o Split(SubSeq(s, k + 1, Len(s)), sep)

\* sep.join(parts)
RECURSIVE Join(_, _)
Join(parts, sep) ==
    IF parts = <<>> THEN <<>>
    ELSE IF Len(parts) = 1 THEN parts[1]
    ELSE parts[1] \o sep \o Join(Tail(parts), sep)

---------------------------------------------------------------------------
(* os.path (posixpath) *)

\* the process's working directory
getcwd == <<"/", "w">>

isabs(p) == StartsWith(p, <<"/">>)

\* os.path.join(a, b)
PathJoin(a, b) ==
    IF isabs(b) THEN b
    ELSE IF a = <<>> \/ EndsWith(a, <<"/">>) THEN a \o b
    ELSE a \o <<"/">> \o b

\* the component loop of posixpath.normpath
RECURSIVE NormComps(_, _, _)
NormComps(comps, new_comps, initial_slashes) ==
    IF comps = <<>> THEN new_comps
    ELSE LET comp == Head(comps)
             rest == Tail(comps)
         IN  IF comp = <<>> \/ comp = <<".">>
             THEN NormComps(rest, new_comps, initial_slashes)
             ELSE IF comp # <<".", ".">>
                     \/ (initial_slashes = 0 /\ new_comps = <<>>)
                     \/ (new_comps # <<>> /\ new_comps[Len(new_comps)] = <<".", ".">>)
             THEN NormComps(rest, Append(new_comps, comp), initial_slashes)
             ELSE IF new_comps # <<>>
             THEN NormComps(rest, SubSeq(new_comps, 1, Len(new_comps) - 1), initial_slashes)
             ELSE NormComps(rest, new_comps, initial_slashes)

\* os.path.normpath(path)
normpath(path) ==
    IF path = <<>> THEN <<".">>
    ELSE LET initial_slashes ==
                 IF ~StartsWith(path, <<"/">>) THEN 0
                 ELSE IF StartsWith(path, <<"/", "/">>) /\ ~StartsWith(path, <<"/", "/", "/">>)
                 THEN 2 ELSE 1
             comps == NormComps(Split(path, "/"), <<>>, initial_slashes)
             joined == [i \in 1..initial_slashes |-> "/"] \o Join(comps, <<"/">>)
         IN  IF joined = <<>> THEN <<".">> ELSE joined

\* os.path.abspath(path)
abspath(path) ==
    normpath(IF isabs(path) THEN path ELSE PathJoin(getcwd, path))

\* os.path.splitext(p)
splitext(p) ==
    LET sepIndex == RFind(p, "/")
        dotIndex == RFind(p, ".")
    IN  IF dotIndex > sepIndex
           /\ \E k \in (sepIndex + 1)..(dotIndex - 1) : p[k] # "."
        THEN <<SubSeq(p, 1, dotIndex - 1), SubSeq(p, dotIndex, Len(p))>>
        ELSE <<p, <<>>>>

\* the directory part and the last component of a normalised absolute path
Components(p) == SelectSeq(Split(p, "/"), LAMBDA c : c # <<>>)

---------------------------------------------------------------------------
(* AgentTools: the scoped file guard *)

\* a plausible slip: the two traversal patterns are missing from the list
forbidden_chars_NoTraversal ==
    << <<"\\">>, <<":">>, <<"*">>, <<"?">>, <<"\"">>, <<"<">>, <<">">>, <<"|">> >>

\* a plausible slip: the last entry of the list is missing
forbidden_chars_NoPipe ==
    << <<".", ".">>, <<"/">>, <<"\\">>, <<":">>, <<"*">>, <<"?">>, <<"\"">>,
       <<"<">>, <<">">> >>

forbidden_chars ==
    << <<".", ".">>, <<"/">>, <<"\\">>, <<":">>, <<"*">>, <<"?">>, <<"\"">>,
       <<"<">>, <<">">>, <<"|">> >>

Digits19 == {"1", "2", "3", "4", "5", "6", "7", "8", "9"}

forbidden_names ==
    { <<"C", "O", "N">>, <<"P", "R", "N">>, <<"A", "U", "X">>, <<"N", "U", "L">> }
        \cup { <<"C", "O", "M", d>> : d \in Digits19 }
        \cup { <<"L", "P", "T", d>> : d \in Digits19 }

\* the first loop of _is_safe_filename
HasForbiddenChar(filename) ==
    \E i \in 1..Len(forbidden_chars) : Contains(filename, forbidden_chars[i])

\* the last test of _is_safe_filename
BadEnds(filename) ==
    \/ filename = <<>>
    \/ StartsWith(filename, <<".">>)
    \/ StartsWith(filename, <<" ">>)
    \/ EndsWith(filename, <<" ">>)

_is_safe_filename(filename) ==
    IF HasForbiddenChar(filename) THEN FALSE
    ELSE IF Upper(splitext(filename)[1]) \in forbidden_names THEN FALSE
    ELSE IF BadEnds(filename) THEN FALSE
    ELSE TRUE

_is_path_within_session(file_path, session_dir) ==
    StartsWith(abspath(file_path), abspath(session_dir))

---------------------------------------------------------------------------
(* Values *)

\* a Python dict is a function on its keys; dict.update(u) is u @@ d
EmptyDict == [k \in {} |-> TRUE]

Without(d, ks) == [k \in DOMAIN d \ ks |-> d[k]]

\* return values
RetNone == [kind |-> "none"]
RetBool(b) == [kind |-> "bool", value |-> b]
RetRecord(r) == [kind |-> "record", value |-> r]
RetRaise(e) == [kind |-> "raise", error |-> e]
NoRet == [kind |-> "pending"]
NoCall == [op |-> "none"]

\* threads and the lock (used by the interleaved specification)
NoThread == "nobody"

\* SessionStateManager._instance before the first construction, and after a
\* construction has run to its end: whether the object exists, whether it has
\* its sessions attribute, whether the startup load has finished, and how many
\* objects were made and how many loads were started
NoInstance == [made |-> FALSE, has_sessions |-> FALSE, loaded |-> FALSE,
               objects |-> 0, loads |-> 0]

Constructed == [made |-> TRUE, has_sessions |-> TRUE, loaded |-> TRUE,
                objects |-> 1, loads |-> 1]

\* os.getenv('ANALYSES_BASE_DIR', 'analyses_data'), abbreviated to one letter
analyses_base_dir == <<"d">>

config_json == <<"c", "o", "n", "f", "i", "g", ".", "j", "s", "o", "n">>

\* a plausible slip: only the fields that cannot be serialised are removed
excluded_fields_Volatile == {"thread", "lock"}

\* a plausible slip: session_dir is not among the fields removed
excluded_fields_NoDir == {"thread", "lock", "config_path"}

excluded_fields == {"thread", "lock", "session_dir", "config_path"}

\* the conversation store before its first turn: the two tables of
\* _init_database and the AUTOINCREMENT counter of conversations.id
EmptyDb == [conversations |-> <<>>, session_summaries |-> EmptyDict, last_id |-> 0]

\* a directory without a document, and the two shapes of a document
NoDoc == [doc |-> "none"]
CorruptDoc == [doc |-> "corrupt"]
Doc(data) == [doc |-> "ok", data |-> data]

---------------------------------------------------------------------------
(* SessionStateManager: what each method does to the table and the disk.   *)
(* Each operator takes the table and the disk and yields the new table,    *)
(* the new disk and the returned value.  The environment's part in a call  *)
(* (whether makedirs or the write of config.json fails) is a parameter.    *)

Out(tbl, dsk, r) == [sessions |-> tbl, disk |-> dsk, ret |-> r]

\* the outcomes of open(config_path, 'w') followed by json.dump:
\*   "ok"          the document is replaced
\*   "open_fails"  open raises, the old document stays
\*   "write_fails" open truncated the file and json.dump raised part-way
WriteOutcomes == {"ok", "open_fails", "write_fails"}

\* the config.json of a session's own directory
own_config_path(session_id) ==
    PathJoin(PathJoin(analyses_base_dir, session_id), config_json)

\* the document is written to the path held in the record's config_path; a
\* record whose config_path is not that of its own directory has its
\* document written elsewhere, and the one in its directory stays
_save_session_to_disk(tbl, dsk, session_id, outcome) ==
    IF session_id \notin DOMAIN tbl THEN dsk
    ELSE IF "config_path" \notin DOMAIN tbl[session_id] THEN dsk
    ELSE IF tbl[session_id]["config_path"] # own_config_path(session_id) THEN dsk
    ELSE IF session_id \notin DOMAIN dsk THEN dsk
    ELSE LET session_data == Without(tbl[session_id], excluded_fields)
         IN  CASE outcome = "ok" -> (session_id :> Doc(session_data)) @@ dsk
               [] outcome = "write_fails" -> (session_id :> CorruptDoc) @@ dsk
               [] OTHER -> dsk

\* os.makedirs(session_dir, exist_ok=True)
makedirs(dsk, session_id) ==
    IF session_id \in DOMAIN dsk THEN dsk ELSE (session_id :> NoDoc) @@ dsk

\* a plausible slip: the record is seeded as already running
InitialStatus_Running == "running"

\* the status a new record is seeded with
InitialStatus == "idle"

initial_session_data(session_id, query, now) ==
    LET session_dir == PathJoin(analyses_base_dir, session_id)
    IN  [ session_id |-> session_id,
          status |-> InitialStatus,
          current_step |-> 0,
          created_at |-> now,
          updated_at |-> now,
          query |-> query,
          module_results |-> EmptyDict,
          analysis_progress |->
              [ total_steps |-> 0, completed_steps |-> 0,
                current_module |-> "", progress_percentage |-> 0 ],
          error_log |-> <<>>,
          config_path |-> PathJoin(session_dir, config_json),
          session_dir |-> session_dir ]

\* a plausible slip: the test for an existing id is lost
SessionKnown_Never(tbl, session_id) == FALSE

\* "if session_id in self.sessions" at the head of register_session
SessionKnown(tbl, session_id) == session_id \in DOMAIN tbl

register_session(tbl, dsk, now, session_id, query, initial_data, mkdir_ok, outcome) ==
    IF SessionKnown(tbl, session_id) THEN Out(tbl, dsk, RetBool(FALSE))
    ELSE IF ~mkdir_ok THEN Out(tbl, dsk, RetBool(FALSE))
    ELSE LET dsk1 == makedirs(dsk, session_id)
             session_data == initial_data @@ initial_session_data(session_id, query, now)
             tbl1 == (session_id :> session_data) @@ tbl
         IN  Out(tbl1, _save_session_to_disk(tbl1, dsk1, session_id, outcome), RetBool(TRUE))

\* a plausible slip: completed and error are made final
set_status_Terminal(tbl, dsk, now, session_id, status, step, additional_data, outcome) ==
    IF session_id \notin DOMAIN tbl THEN Out(tbl, dsk, RetBool(FALSE))
    ELSE IF tbl[session_id]["status"] \in {"completed", "error"}
    THEN Out(tbl, dsk, RetBool(FALSE))
    ELSE LET r1 == ("updated_at" :> now) @@ ("status" :> status) @@ tbl[session_id]
             r2 == IF step # <<>> THEN ("current_step" :> step[1]) @@ r1 ELSE r1
             r3 == additional_data @@ r2
             tbl1 == (session_id :> r3) @@ tbl
         IN  Out(tbl1, _save_session_to_disk(tbl1, dsk, session_id, outcome), RetBool(TRUE))

\* step is <<>> for None and <<n>> for the integer n
set_status(tbl, dsk, now, session_id, status, step, additional_data, outcome) ==
    IF session_id \notin DOMAIN tbl THEN Out(tbl, dsk, RetBool(FALSE))
    ELSE LET r1 == ("updated_at" :> now) @@ ("status" :> status) @@ tbl[session_id]
             r2 == IF step # <<>> THEN ("current_step" :> step[1]) @@ r1 ELSE r1
             r3 == additional_data @@ r2
             tbl1 == (session_id :> r3) @@ tbl
         IN  Out(tbl1, _save_session_to_disk(tbl1, dsk, session_id, outcome), RetBool(TRUE))

get_status(tbl, session_id) ==
    IF session_id \notin DOMAIN tbl THEN RetNone
    ELSE RetRecord(Without(tbl[session_id], excluded_fields))

\* round(completed_steps / total_steps * 100, 2), in hundredths of a percent
progress_hundredths(completed_steps, total_steps) ==
    IF total_steps > 0
    THEN LET n == completed_steps * 10000
             q == n \div total_steps
             twice_rem == 2 * (n % total_steps)
         IN  IF twice_rem > total_steps \/ (twice_rem = total_steps /\ q % 2 = 1)
             THEN q + 1 ELSE q
    ELSE 0

\* a plausible slip: the progress of an unknown session is stored as a new record
update_progress_Upsert(tbl, dsk, now, session_id, current_module, completed_steps, total_steps, outcome) ==
    LET progress == [ total_steps |-> total_steps,
                      completed_steps |-> completed_steps,
                      current_module |-> current_module,
                      progress_percentage |->
                          progress_hundredths(completed_steps, total_steps) ]
        r0 == IF session_id \in DOMAIN tbl THEN tbl[session_id] ELSE EmptyDict
        r1 == ("updated_at" :> now) @@ ("analysis_progress" :> progress) @@ r0
        tbl1 == (session_id :> r1) @@ tbl
    IN  Out(tbl1, _save_session_to_disk(tbl1, dsk, session_id, outcome), RetBool(TRUE))

update_progress(tbl, dsk, now, session_id, current_module, completed_steps, total_steps, outcome) ==
    IF session_id \notin DOMAIN tbl THEN Out(tbl, dsk, RetBool(FALSE))
    ELSE LET progress == [ total_steps |-> total_steps,
                           completed_steps |-> completed_steps,
                           current_module |-> current_module,
                           progress_percentage |->
                               progress_hundredths(completed_steps, total_steps) ]
             r1 == ("updated_at" :> now) @@ ("analysis_progress" :> progress) @@ tbl[session_id]
             tbl1 == (session_id :> r1) @@ tbl
         IN  Out(tbl1, _save_session_to_disk(tbl1, dsk, session_id, outcome), RetBool(TRUE))

error_log_cap == 50

LastN(s, n) == IF Len(s) > n THEN SubSeq(s, Len(s) - n + 1, Len(s)) ELSE s

add_error_log(tbl, dsk, now, session_id, error_message, module_name, outcome) ==
    IF session_id \notin DOMAIN tbl THEN Out(tbl, dsk, RetBool(FALSE))
    ELSE LET error_entry == [timestamp |-> now, module |-> module_name, message |-> error_message]
             old == IF "error_log" \in DOMAIN tbl[session_id]
                    THEN tbl[session_id]["error_log"] ELSE <<>>
             log == LastN(Append(old, error_entry), error_log_cap)
             r1 == ("updated_at" :> now) @@ ("error_log" :> log) @@ tbl[session_id]
             tbl1 == (session_id :> r1) @@ tbl
         IN  Out(tbl1, _save_session_to_disk(tbl1, dsk, session_id, outcome), RetBool(TRUE))

\* the outcomes of shutil.rmtree(session_dir)
RmtreeOutcomes == {"ok", "fails"}

\* del self.sessions[session_id]
RemoveKey(tbl, session_id) == [k \in DOMAIN tbl \ {session_id} |-> tbl[k]]

\* self.sessions[session_id].get('session_dir'): <<>> stands for None and ''
record_session_dir(record) ==
    IF "session_dir" \in DOMAIN record THEN record["session_dir"] ELSE <<>>

\* the second half of delete_session: "if session_dir and
\* os.path.exists(session_dir): shutil.rmtree(session_dir)", session_dir being
\* what the record removed from the table held
remove_session_dir(dsk, session_id, session_dir, outcome) ==
    IF session_dir = <<>> \/ session_id \notin DOMAIN dsk
    THEN Out(EmptyDict, dsk, RetBool(TRUE))
    ELSE IF outcome = "ok" THEN Out(EmptyDict, RemoveKey(dsk, session_id), RetBool(TRUE))
    ELSE Out(EmptyDict, dsk, RetBool(FALSE))

delete_session(tbl, dsk, session_id, outcome) ==
    IF session_id \notin DOMAIN tbl THEN Out(tbl, dsk, RetBool(FALSE))
    ELSE LET d == remove_session_dir(dsk, session_id,
                                     record_session_dir(tbl[session_id]), outcome)
         IN  Out(RemoveKey(tbl, session_id), d.disk, d.ret)

\* config.get(key, default)
DictGet(d, key, default) == IF key \in DOMAIN d THEN d[key] ELSE default

\* the record _load_sessions_from_disk builds from one config.json
loaded_session_data(session_id, config, now) ==
    LET session_dir == PathJoin(analyses_base_dir, session_id)
    IN  [ session_id |-> session_id,
          status |-> DictGet(config, "status", "idle"),
          current_step |-> DictGet(config, "current_step", 0),
          created_at |-> DictGet(config, "created_at", now),
          updated_at |-> now,
          query |-> DictGet(config, "query", <<>>),
          module_results |-> DictGet(config, "module_results", EmptyDict),
          analysis_progress |-> DictGet(config, "analysis_progress", EmptyDict),
          error_log |-> DictGet(config, "error_log", <<>>),
          config_path |-> PathJoin(session_dir, config_json),
          session_dir |-> session_dir ]

\* the table a new process starts with: one record for every session
\* directory whose config.json parses; a directory without a document and a
\* document json.load rejects are skipped
_load_sessions_from_disk(dsk, now) ==
    [ session_id \in { sid \in DOMAIN dsk : dsk[sid].doc = "ok" } |->
          loaded_session_data(session_id, dsk[session_id].data, now) ]

\* the ids of a set as a sequence
RECURSIVE SeqOf(_)
SeqOf(S) ==
    IF S = {} THEN <<>>
    ELSE LET x == CHOOSE y \in S : TRUE IN <<x>> \o SeqOf(S \ {x})

\* sessions_list.sort(key=created_at, reverse=True)
list_sessions(tbl, status_filter) ==
    LET ids == { sid \in DOMAIN tbl :
                     status_filter = <<>> \/ tbl[sid]["status"] = status_filter[1] }
        copies == [i \in 1..Cardinality(ids) |->
                      Without(tbl[SeqOf(ids)[i]], excluded_fields)]
    IN  RetRecord(SortSeq(copies, LAMBDA a, b : a["created_at"] > b["created_at"]))

---------------------------------------------------------------------------
(* ConversationMemory: each method takes the store and returns the store it *)
(* leaves and the value it returns.  A connection is opened per call and    *)
(* "with sqlite3.connect(...) as conn" commits on a normal exit and rolls   *)
(* back on an exception.                                                    *)

StoreOut(d, r) == [db |-> d, ret |-> r]

\* a column holding NULL, and one holding the text json.dumps wrote
SqlNull == [null |-> TRUE]
JsonText(x) == [json |-> x]

\* "json.dumps(x) if x else None": <<>> stands for None and for an empty value
json_dumps_or_null(x) == IF x = <<>> THEN SqlNull ELSE JsonText(x)

\* where add_message may be failed by the store:
\*   insert_fails: connect or the INSERT raises; rollup_fails: a statement of
\*   _update_session_summary raises; commit_fails: conn.commit() raises
AppendOutcomes == {"ok", "insert_fails", "rollup_fails", "commit_fails"}

\* the outcomes of the other methods: every statement works, or one raises
QueryOutcomes == {"ok", "fails"}

\* SELECT ... FROM conversations WHERE session_id = ?, in rowid order
TurnsOf(d, session_id) ==
    SelectSeq(d.conversations, LAMBDA row : row.session_id = session_id)

\* the statements of _update_session_summary when none of them raises
_update_session_summary(summaries, session_id, timestamp, tokens_used) ==
    IF session_id \in DOMAIN summaries
    THEN [summaries EXCEPT ![session_id] =
             [@ EXCEPT !.total_messages = @ + 1,
                       !.total_tokens = @ + tokens_used,
                       !.last_message_at = timestamp,
                       !.updated_at = timestamp]]
    ELSE (session_id :>
              [ session_id |-> session_id, summary |-> SqlNull, total_messages |-> 1,
                total_tokens |-> tokens_used, first_message_at |-> timestamp,
                last_message_at |-> timestamp, status |-> "active",
                updated_at |-> timestamp ]) @@ summaries

\* turn holds role, message, metadata, tokens_used, model_used, tool_calls
add_message(d, now, session_id, turn, outcome) ==
    LET row == [ id |-> d.last_id + 1,
                 session_id |-> session_id,
                 role |-> turn.role,
                 message |-> turn.message,
                 timestamp |-> now,
                 metadata |-> json_dumps_or_null(turn.metadata),
                 tokens_used |-> turn.tokens_used,
                 model_used |-> turn.model_used,
                 tool_calls |-> json_dumps_or_null(turn.tool_calls) ]
        inserted == [d EXCEPT !.conversations = Append(@, row), !.last_id = @ + 1]
    IN  CASE outcome \in {"insert_fails", "commit_fails"} -> StoreOut(d, RetBool(FALSE))
          [] outcome = "rollup_fails" -> StoreOut(inserted, RetBool(TRUE))
          [] OTHER ->
              StoreOut([inserted EXCEPT !.session_summaries =
                            _update_session_summary(@, session_id, now, turn.tokens_used)],
                       RetBool(TRUE))

\* a plausible slip: the history is read newest first
TimestampOrder_Desc(a, b) == a.timestamp > b.timestamp

\* ORDER BY timestamp ASC
TimestampOrder(a, b) == a.timestamp < b.timestamp

\* a plausible slip: the most recent rows are kept
Limit_MostRecent(rows, limit) ==
    IF limit < 0 \/ limit >= Len(rows) THEN rows
    ELSE SubSeq(rows, Len(rows) - limit + 1, Len(rows))

\* LIMIT ?: a negative limit is no limit
Limit(rows, limit) ==
    IF limit < 0 \/ limit >= Len(rows) THEN rows ELSE SubSeq(rows, 1, limit)

\* the dictionary built for one row of the history
message_data(row) ==
    LET base == [ id |-> row.id, session_id |-> row.session_id, role |-> row.role,
                  message |-> row.message, timestamp |-> row.timestamp,
                  tokens_used |-> row.tokens_used, model_used |-> row.model_used ]
    IN  IF row.tool_calls # SqlNull
        THEN ("tool_calls" :> row.tool_calls.json) @@ base
        ELSE base

\* with include_metadata the loop evaluates row.get('metadata') on a
\* sqlite3.Row, which has no get: the AttributeError of the first row is
\* caught by the method's except and the result is []
get_conversation_history(d, session_id, limit, include_metadata, outcome) ==
    LET rows == Limit(SortSeq(TurnsOf(d, session_id), TimestampOrder), limit)
    IN  IF outcome = "fails" THEN RetRecord(<<>>)
        ELSE IF include_metadata /\ rows # <<>> THEN RetRecord(<<>>)
        ELSE RetRecord([i \in 1..Len(rows) |-> message_data(rows[i])])

get_context_for_ai(d, session_id, context_limit, outcome) ==
    LET messages == get_conversation_history(d, session_id, context_limit, FALSE,
                                             outcome).value
    IN  RetRecord([i \in 1..Len(messages) |->
                      [ role |-> IF messages[i].role = "user" THEN "user" ELSE "assistant",
                        content |-> messages[i].message ]])

get_session_summary(d, session_id, outcome) ==
    IF outcome = "ok" /\ session_id \in DOMAIN d.session_summaries
    THEN RetRecord(d.session_summaries[session_id])
    ELSE RetNone

\* UPDATE session_summaries SET summary = ? ... WHERE session_id = ?
update_session_summary(d, now, session_id, summary, outcome) ==
    IF outcome = "fails" THEN StoreOut(d, RetBool(FALSE))
    ELSE IF session_id \in DOMAIN d.session_summaries
    THEN StoreOut([d EXCEPT !.session_summaries[session_id] =
                       [@ EXCEPT !.summary = summary, !.updated_at = now]],
                  RetBool(TRUE))
    ELSE StoreOut(d, RetBool(TRUE))

\* a plausible slip: the DELETE statements lack their WHERE clause
clear_session_history_All(d, session_id, outcome) ==
    IF outcome = "fails" THEN StoreOut(d, RetBool(FALSE))
    ELSE StoreOut([d EXCEPT !.conversations = <<>>, !.session_summaries = EmptyDict],
                  RetBool(TRUE))

clear_session_history(d, session_id, outcome) ==
    IF outcome = "fails" THEN StoreOut(d, RetBool(FALSE))
    ELSE StoreOut([d EXCEPT
                       !.conversations =
                           SelectSeq(@, LAMBDA row : row.session_id # session_id),
                       !.session_summaries = RemoveKey(@, session_id)],
                  RetBool(TRUE))

---------------------------------------------------------------------------
(* AgentTools: pause and resume, as one call in a single-threaded run *)

Envelope(status, message, more) ==
    more @@ [kind |-> "envelope", status |-> status, message |-> message]

NotFound(session_id) == Envelope("error", <<"Sessao nao encontrada", session_id>>, EmptyDict)

\* a plausible slip: an idle session may be paused too
MayPause_OrIdle(current_status) == current_status["status"] \in {"running", "idle"}

\* the test that lets pause_workflow go on to set_status
MayPause(current_status) == current_status["status"] = "running"

\* a plausible slip: every session that is not running may be resumed
MayResume_NotRunning(current_status) == current_status["status"] # "running"

\* the test that lets resume_workflow go on to set_status
MayResume(current_status) == current_status["status"] = "paused"

PauseData(reason, now) == [pause_reason |-> reason, paused_at |-> now]

ResumeData(now) == [resume_prepared_at |-> now, ready_to_resume |-> TRUE]

\* a plausible slip: the entry says that the workflow was paused, not why
PauseMessage_NoReason(reason) == <<"Workflow pausado">>

PauseMessage(reason) == <<"Workflow pausado: ", reason>>

pause_workflow(tbl, dsk, now, session_id, reason, o1, o2) ==
    LET current_status == get_status(tbl, session_id)
    IN  IF current_status.kind = "none" THEN Out(tbl, dsk, NotFound(session_id))
        ELSE IF ~MayPause(current_status.value)
        THEN Out(tbl, dsk, Envelope("warning",
                 <<"Sessao nao esta executando", session_id, current_status.value["status"]>>,
                 EmptyDict))
        ELSE LET a == set_status(tbl, dsk, now, session_id, "paused", <<>>,
                                 PauseData(reason, now), o1)
             IN  IF a.ret.value
                 THEN LET b == add_error_log(a.sessions, a.disk, now, session_id,
                                             PauseMessage(reason), "AgentTools", o2)
                      IN  Out(b.sessions, b.disk,
                              Envelope("success", <<"Workflow pausado com sucesso">>,
                                       [session_id |-> session_id, reason |-> reason]))
                 ELSE Out(a.sessions, a.disk,
                          Envelope("error", <<"Falha ao pausar workflow">>, EmptyDict))

resume_workflow(tbl, dsk, now, session_id, o1) ==
    LET current_status == get_status(tbl, session_id)
    IN  IF current_status.kind = "none" THEN Out(tbl, dsk, NotFound(session_id))
        ELSE IF ~MayResume(current_status.value)
        THEN Out(tbl, dsk, Envelope("warning",
                 <<"Sessao nao esta pausada", session_id, current_status.value["status"]>>,
                 EmptyDict))
        ELSE LET a == set_status(tbl, dsk, now, session_id, "idle", <<>>, ResumeData(now), o1)
                 next_step == IF "current_step" \in DOMAIN current_status.value
                              THEN current_status.value["current_step"] ELSE 0
             IN  IF a.ret.value
                 THEN Out(a.sessions, a.disk,
                          Envelope("success", <<"Sessao preparada para retomar">>,
                                   [session_id |-> session_id, next_step |-> next_step]))
                 ELSE Out(a.sessions, a.disk,
                          Envelope("error", <<"Falha ao preparar sessao para retomar">>,
                                   EmptyDict))

---------------------------------------------------------------------------
(* Inputs *)

\* the characters file names are built from: the ten forbidden ones, a
\* letter, and three kinds of whitespace
NameChars ==
    {".", "/", "\\", ":", "*", "?", "\"", "<", ">", "|", "a", " ", "\t", "\n"}

report_txt == <<"r", "e", "p", "o", "r", "t", ".", "t", "x", "t">>
etc_passwd == <<".", ".", "/", ".", ".", "/", "e", "t", "c", "/", "p", "a", "s", "s", "w", "d">>

SampleNames ==
    { report_txt, etc_passwd, config_json,
      <<"C", "O", "N">>, <<"c", "o", "n", ".", "t", "x", "t">>, <<"C", "O", "M", "1">>, <<"l", "p", "t", "9", ".", "a">>,
      <<".", ".", "/", "s", "b", "/", "a">>, <<".", ".", "/", "a">>, <<"a", ".", "a">>, <<"a", "a", "a">>,
      <<"/", "w", "/", "d", "/", "s", "b", "/", "a">>, <<"a", "/", ".", ".", "/", ".", ".", "/", "s", "b", "/", "a">> }

NameInputs == StrsUpTo(NameChars, MaxNameLen) \cup SampleNames

PathChars == {"/", ".", "a", "b"}

SamplePaths ==
    { <<"/", "d", "a", "t", "a", "/", "s", "e", "s", "s", "1", "/", "x", ".", "t", "x", "t">>,
      <<"/", "d", "a", "t", "a", "/", "s", "e", "s", "s", "1", "e", "v", "i", "l", "/", "x", ".", "t", "x", "t">> }

PathInputs == StrsUpTo(PathChars, MaxPathLen) \cup SamplePaths

DirInputs == { <<"/", "a">>, <<"a">>, <<"/", "a", "/", "b">>, <<"/", "d", "a", "t", "a", "/", "s", "e", "s", "s", "1">> }

\* two session ids, the first a string prefix of the second
SessionIds == { <<"s">>, <<"s", "b">> }

Statuses == {"idle", "running", "paused", "completed", "error"}

Queries == { <<"q">>, <<"r">> }

StepInputs == { <<>>, <<1>> }

InitialDataInputs == { EmptyDict }

AdditionalDataInputs == { EmptyDict }

Reasons == { "Pausado pelo usuario" }

ProgressInputs == { <<"m", 3, 10>>, <<"m", 0, 0>> }

ErrorInputs == { <<"boom", "mod">> }

Threads == {"t1", "t2"}

---------------------------------------------------------------------------
(* The single-threaded specification: every public call is one step *)

Init ==
    /\ sessions = EmptyDict
    /\ disk = EmptyDict
    /\ files = EmptyDict
    /\ instance = Constructed
    /\ db = EmptyDb
    /\ memory_lock = NoThread
    /\ clock = 0
    /\ call = NoCall
    /\ ret = NoRet
    /\ fsops = <<>>
    /\ lock = NoThread
    /\ pc = [t \in Threads |-> "idle"]
    /\ frame = [t \in Threads |-> EmptyDict]

\* the variables of the interleaved specification and of the file reads
others == <<files, fsops, lock, pc, frame, db, memory_lock, instance>>

RegisterSession ==
    \E session_id \in SessionIds, query \in Queries, initial_data \in InitialDataInputs,
       mkdir_ok \in BOOLEAN, outcome \in WriteOutcomes :
        LET o == register_session(sessions, disk, clock, session_id, query, initial_data,
                                  mkdir_ok, outcome)
        IN  /\ clock < MaxClock
            /\ sessions' = o.sessions
            /\ disk' = o.disk
            /\ ret' = o.ret
            /\ call' = [op |-> "register_session", session_id |-> session_id,
                        query |-> query, initial_data |-> initial_data]
            /\ clock' = clock + 1
            /\ UNCHANGED others

SetStatus ==
    \E session_id \in SessionIds, status \in Statuses, step \in StepInputs,
       additional_data \in AdditionalDataInputs, outcome \in WriteOutcomes :
        LET o == set_status(sessions, disk, clock, session_id, status, step,
                            additional_data, outcome)
        IN  /\ clock < MaxClock
            /\ sessions' = o.sessions
            /\ disk' = o.disk
            /\ ret' = o.ret
            /\ call' = [op |-> "set_status", session_id |-> session_id, status |-> status,
                        step |-> step, additional_data |-> additional_data]
            /\ clock' = clock + 1
            /\ UNCHANGED others

GetStatus ==
    \E session_id \in SessionIds :
        /\ ret' = get_status(sessions, session_id)
        /\ call' = [op |-> "get_status", session_id |-> session_id]
        /\ UNCHANGED <<sessions, disk, clock>>
        /\ UNCHANGED others

UpdateProgress ==
    \E session_id \in SessionIds, p \in ProgressInputs, outcome \in WriteOutcomes :
        LET o == update_progress(sessions, disk, clock, session_id, p[1], p[2], p[3],
                                 outcome)
        IN  /\ clock < MaxClock
            /\ sessions' = o.sessions
            /\ disk' = o.disk
            /\ ret' = o.ret
            /\ call' = [op |-> "update_progress", session_id |-> session_id,
                        current_module |-> p[1], completed_steps |-> p[2],
                        total_steps |-> p[3]]
            /\ clock' = clock + 1
            /\ UNCHANGED others

AddErrorLog ==
    \E session_id \in SessionIds, e \in ErrorInputs, outcome \in WriteOutcomes :
        LET o == add_error_log(sessions, disk, clock, session_id, e[1], e[2], outcome)
        IN  /\ clock < MaxClock
            /\ sessions' = o.sessions
            /\ disk' = o.disk
            /\ ret' = o.ret
            /\ call' = [op |-> "add_error_log", session_id |-> session_id,
                        error_message |-> e[1], module_name |-> e[2]]
            /\ clock' = clock + 1
            /\ UNCHANGED others

PauseWorkflow ==
    \E session_id \in SessionIds, reason \in Reasons, o1 \in WriteOutcomes,
       o2 \in WriteOutcomes :
        LET o == pause_workflow(sessions, disk, clock, session_id, reason, o1, o2)
        IN  /\ clock < MaxClock
            /\ sessions' = o.sessions
            /\ disk' = o.disk
            /\ ret' = o.ret
            /\ call' = [op |-> "pause_workflow", session_id |-> session_id,
                        reason |-> reason]
            /\ clock' = clock + 1
            /\ UNCHANGED others

ResumeWorkflow ==
    \E session_id \in SessionIds, o1 \in WriteOutcomes :
        LET o == resume_workflow(sessions, disk, clock, session_id, o1)
        IN  /\ clock < MaxClock
            /\ sessions' = o.sessions
            /\ disk' = o.disk
            /\ ret' = o.ret
            /\ call' = [op |-> "resume_workflow", session_id |-> session_id]
            /\ clock' = clock + 1
            /\ UNCHANGED others

Next ==
    \/ RegisterSession
    \/ SetStatus
    \/ GetStatus
    \/ UpdateProgress
    \/ AddErrorLog
    \/ PauseWorkflow
    \/ ResumeWorkflow

Spec == Init /\ [][Next]_vars

---------------------------------------------------------------------------
(* Claims about the single-threaded specification *)

MutatingOps == {"register_session", "set_status", "update_progress", "add_error_log"}

\* C1: whenever registerSession, setStatus, updateProgress or addErrorLog
\* returns success, the document on disk of that session equals the
\* in-memory record without its internal fields -- also when the write of
\* the document failed.
C1_SuccessMeansPersisted ==
    (call.op \in MutatingOps /\ ret = RetBool(TRUE)) =>
        /\ call.session_id \in DOMAIN disk
        /\ disk[call.session_id]
               = Doc(Without(sessions[call.session_id], excluded_fields))

\* C4: in a single-threaded run pauseWorkflow returns success only when the
\* status is exactly running; from any other status it returns a warning and
\* leaves the table and the disk as they were.
C4_PauseGuard ==
    [][ (call'.op = "pause_workflow" /\ call'.session_id \in DOMAIN sessions) =>
            LET s == call'.session_id
            IN  /\ ret'.status = "success" => sessions[s]["status"] = "running"
                /\ sessions[s]["status"] # "running" =>
                       /\ ret'.status = "warning"
                       /\ sessions' = sessions
                       /\ disk' = disk ]_vars

\* C4 witness: pauseWorkflow was called on a completed session and answered
\* with a warning.
C4_Witness ==
    /\ call.op = "pause_workflow"
    /\ ret.status = "warning"
    /\ sessions[call.session_id]["status"] = "completed"

FreshView(r, query) ==
    /\ r.kind = "record"
    /\ r.value["status"] = "idle"
    /\ r.value["current_step"] = 0
    /\ r.value["error_log"] = <<>>
    /\ r.value["analysis_progress"]["total_steps"] = 0
    /\ r.value["analysis_progress"]["completed_steps"] = 0
    /\ r.value["analysis_progress"]["progress_percentage"] = 0
    /\ r.value["query"] = query

\* C10 as stated: for every session id s not yet in the table,
\* registerSession(s, q) returns true and the getStatus(s) that follows returns
\* status idle, current_step 0, an empty error_log, zeroed progress and query q.
C10_RegisterAlwaysSucceeds ==
    [][ (/\ call'.op = "register_session"
         /\ call'.initial_data = EmptyDict
         /\ call'.session_id \notin DOMAIN sessions) =>
            /\ ret' = RetBool(TRUE)
            /\ FreshView(get_status(sessions', call'.session_id), call'.query) ]_vars

\* C10 as amended: for every session id s not yet in the table,
\* registerSession(s, q) either returns false and leaves the table and the
\* disk unchanged (the session directory could not be created), or returns
\* true, and then the getStatus(s) that follows returns status idle,
\* current_step 0, an empty error_log, zeroed progress and query q.
C10_RegisterThenGetStatus ==
    [][ (/\ call'.op = "register_session"
         /\ call'.initial_data = EmptyDict
         /\ call'.session_id \notin DOMAIN sessions) =>
            \/ /\ ret' = RetBool(FALSE)
               /\ sessions' = sessions
               /\ disk' = disk
            \/ /\ ret' = RetBool(TRUE)
               /\ FreshView(get_status(sessions', call'.session_id), call'.query) ]_vars

\* C10 witness: a second session was registered with query r, and is in the
\* table with that query.
C10_Witness ==
    /\ call.op = "register_session"
    /\ ret = RetBool(TRUE)
    /\ call.query = <<"r">>
    /\ Cardinality(DOMAIN sessions) = 2
    /\ FreshView(get_status(sessions, call.session_id), <<"r">>)

---------------------------------------------------------------------------
(* The specification of the scoped file guard: the two checks are pure, so *)
(* the initial state draws the arguments and the step applies the check.   *)

GuardCalls ==
    { [op |-> "_is_safe_filename", filename |-> f] : f \in NameInputs }
        \cup { [op |-> "_is_path_within_session", file_path |-> p, session_dir |-> b] :
                   p \in PathInputs, b \in DirInputs }

InitGuard ==
    /\ sessions = EmptyDict
    /\ disk = EmptyDict
    /\ files = EmptyDict
    /\ instance = Constructed
    /\ db = EmptyDb
    /\ memory_lock = NoThread
    /\ clock = 0
    /\ call \in GuardCalls
    /\ ret = NoRet
    /\ fsops = <<>>
    /\ lock = NoThread
    /\ pc = [t \in Threads |-> "idle"]
    /\ frame = [t \in Threads |-> EmptyDict]

IsSafeFilename ==
    /\ call.op = "_is_safe_filename"
    /\ ret = NoRet
    /\ ret' = RetBool(_is_safe_filename(call.filename))
    /\ UNCHANGED <<sessions, disk, clock, call>>
    /\ UNCHANGED others

IsPathWithinSession ==
    /\ call.op = "_is_path_within_session"
    /\ ret = NoRet
    /\ ret' = RetBool(_is_path_within_session(call.file_path, call.session_dir))
    /\ UNCHANGED <<sessions, disk, clock, call>>
    /\ UNCHANGED others

NextGuard ==
    \/ IsSafeFilename
    \/ IsPathWithinSession

SpecGuard == InitGuard /\ [][NextGuard]_vars

---------------------------------------------------------------------------
(* Claims about the scoped file guard *)

\* base is a prefix of path, component by component
WithinByComponents(path, base) ==
    LET p == Components(abspath(path))
        b == Components(abspath(base))
    IN  Len(b) <= Len(p) /\ SubSeq(p, 1, Len(b)) = b

\* C6: isWithinDirectory(path, base) is true only when path is base or lies
\* below base on a path-component boundary; a file in a sibling directory whose
\* name merely starts with base's name is not within base.
C6_WithinOnComponentBoundary ==
    (call.op = "_is_path_within_session" /\ ret = RetBool(TRUE)) =>
        WithinByComponents(call.file_path, call.session_dir)

\* the substrings the specification lists
ListedSubstrings ==
    { <<".", ".">>, <<"/">>, <<"\\">>, <<":">>, <<"*">>, <<"?">>, <<"\"">>,
      <<"<">>, <<">">>, <<"|">> }

\* C8: isSafeName is false for every name that contains '..', '/', '\', ':',
\* '*', '?', '"', '<', '>' or '|', and true for report.txt.
C8_ListedSubstringsRejected ==
    (call.op = "_is_safe_filename" /\ ret.kind = "bool") =>
        /\ (\E sub \in ListedSubstrings : Contains(call.filename, sub)) => ret.value = FALSE
        /\ call.filename = report_txt => ret.value = TRUE

\* C8 witness: ../../etc/passwd was checked and rejected.
C8_Witness ==
    /\ call.op = "_is_safe_filename"
    /\ call.filename = etc_passwd
    /\ ret = RetBool(FALSE)

Whitespace == {" ", "\t", "\n"}

\* C9: isSafeName is false for the empty name, for every name that starts
\* with '.', and for every name with leading or trailing whitespace of any
\* kind (space, tab, newline).
C9_EndsRejected ==
    (call.op = "_is_safe_filename" /\ ret.kind = "bool") =>
        LET f == call.filename
        IN  (\/ f = <<>>
             \/ f[1] = "."
             \/ f[1] \in Whitespace
             \/ f[Len(f)] \in Whitespace) => ret.value = FALSE

---------------------------------------------------------------------------
(* AgentTools.get_file_content and the file system it reads *)

\* SessionStateManager.get_session_directory, called by one thread alone
get_session_directory(tbl, session_id) ==
    IF session_id \in DOMAIN tbl /\ "session_dir" \in DOMAIN tbl[session_id]
    THEN RetRecord(tbl[session_id]["session_dir"])
    ELSE RetNone

\* the directory os.makedirs created for a session id, as an absolute path
SessionDirOnDisk(name) == abspath(PathJoin(analyses_base_dir, name))

ConfigOnDisk(name) == abspath(PathJoin(PathJoin(analyses_base_dir, name), config_json))

IsDir(dsk, path) ==
    \/ path \in { <<"/">>, getcwd, abspath(analyses_base_dir) }
    \/ \E name \in DOMAIN dsk : path = SessionDirOnDisk(name)

IsConfig(dsk, path) ==
    \E name \in DOMAIN dsk : dsk[name].doc # "none" /\ path = ConfigOnDisk(name)

\* os.path.exists(path)
exists(dsk, fls, path) ==
    abspath(path) \in DOMAIN fls \/ IsConfig(dsk, abspath(path)) \/ IsDir(dsk, abspath(path))

\* size, modification time and whether the bytes decode as UTF-8
FileAttrs(dsk, fls, path) ==
    IF abspath(path) \in DOMAIN fls THEN fls[abspath(path)]
    ELSE IF IsConfig(dsk, abspath(path)) THEN [size |-> 1, modified |-> 0, utf8 |-> TRUE]
    ELSE [size |-> 4096, modified |-> 0, utf8 |-> FALSE]

DefaultMaxSize == 1048576

Read(r, ops) == [ret |-> r, fsops |-> ops]

get_file_content(tbl, dsk, fls, session_id, filename, max_size) ==
    IF ~_is_safe_filename(filename)
    THEN Read(Envelope("error", <<"Nome de arquivo invalido ou nao seguro">>, EmptyDict), <<>>)
    ELSE LET session_dir == get_session_directory(tbl, session_id)
         IN  IF session_dir.kind = "none" \/ session_dir.value = <<>>
             THEN Read(NotFound(session_id), <<>>)
             ELSE LET file_path == PathJoin(session_dir.value, filename)
                      at == abspath(file_path)
                      attrs == FileAttrs(dsk, fls, file_path)
                      probe == << <<"exists", at>> >>
                      sized == Append(probe, <<"getsize", at>>)
                      opened == Append(sized, <<"open", at>>)
                      info(encoding) ==
                          [name |-> filename, size |-> attrs.size,
                           modified |-> attrs.modified, encoding |-> encoding]
                  IN  IF ~_is_path_within_session(file_path, session_dir.value)
                      THEN Read(Envelope("error",
                                    <<"Acesso negado: arquivo fora da pasta da sessao">>,
                                    EmptyDict), <<>>)
                      ELSE IF ~exists(dsk, fls, file_path)
                      THEN Read(Envelope("error", <<"Arquivo nao encontrado na sessao",
                                    filename>>, EmptyDict), probe)
                      ELSE IF attrs.size > max_size
                      THEN Read(Envelope("error", <<"Arquivo muito grande", attrs.size,
                                    max_size>>, EmptyDict), sized)
                      ELSE IF IsDir(dsk, at)
                      THEN Read(Envelope("error", <<"IsADirectoryError", at>>, EmptyDict),
                                opened)
                      ELSE IF attrs.utf8
                      THEN Read(Envelope("success", <<>>,
                                    [content |-> <<"text", at>>, file_info |-> info("utf-8"),
                                     session_id |-> session_id]), opened)
                      ELSE Read(Envelope("success", <<>>,
                                    [content |-> <<"hex", at>>, file_info |-> info("binary"),
                                     session_id |-> session_id,
                                     note |-> "Arquivo binario retornado em formato hexadecimal"]),
                                Append(opened, <<"open", at>>))

---------------------------------------------------------------------------
(* The specification of file reads: the initial state draws a table that    *)
(* register_session built, the files on disk and the arguments; the step    *)
(* is the call.                                                             *)

Registered1 ==
    register_session(EmptyDict, EmptyDict, 0, <<"s">>, <<"q">>, EmptyDict, TRUE, "ok")

Registered2 ==
    register_session(Registered1.sessions, Registered1.disk, 1, <<"s", "b">>, <<"q">>,
                     EmptyDict, TRUE, "ok")

ReadTables == { Out(EmptyDict, EmptyDict, NoRet), Registered1, Registered2 }

\* files the workflow left behind: one in each session directory, a binary
\* one, and one in the base directory
ArtifactFiles ==
    (<<"/", "w", "/", "d", "/", "s", "/", "a">> :> [size |-> 1, modified |-> 0, utf8 |-> TRUE])
    @@ (<<"/", "w", "/", "d", "/", "s", "/", "a", "a">> :> [size |-> 2, modified |-> 0, utf8 |-> FALSE])
    @@ (<<"/", "w", "/", "d", "/", "s", "b", "/", "a">> :> [size |-> 1, modified |-> 0, utf8 |-> TRUE])
    @@ (<<"/", "w", "/", "d", "/", "a">> :> [size |-> 1, modified |-> 0, utf8 |-> TRUE])

OutsideFiles ==
    [path \in DOMAIN ArtifactFiles \ { <<"/", "w", "/", "d", "/", "s", "/", "a">>,
                                       <<"/", "w", "/", "d", "/", "s", "/", "a", "a">> }
        |-> ArtifactFiles[path]]

FileSystems == { EmptyDict, ArtifactFiles, OutsideFiles }

MaxSizeInputs == { 1, DefaultMaxSize }

ReadCalls ==
    { [op |-> "get_file_content", session_id |-> sid, filename |-> f, max_size |-> n] :
          sid \in SessionIds, f \in NameInputs, n \in MaxSizeInputs }

InitRead ==
    /\ \E t \in ReadTables :
           /\ sessions = t.sessions
           /\ disk = t.disk
           /\ clock = Cardinality(DOMAIN t.sessions)
    /\ files \in FileSystems
    /\ instance = Constructed
    /\ db = EmptyDb
    /\ memory_lock = NoThread
    /\ call \in ReadCalls
    /\ ret = NoRet
    /\ fsops = <<>>
    /\ lock = NoThread
    /\ pc = [t \in Threads |-> "idle"]
    /\ frame = [t \in Threads |-> EmptyDict]

GetFileContent ==
    /\ call.op = "get_file_content"
    /\ ret = NoRet
    /\ LET o == get_file_content(sessions, disk, files, call.session_id, call.filename,
                                 call.max_size)
       IN  /\ ret' = o.ret
           /\ fsops' = o.fsops
    /\ UNCHANGED <<sessions, disk, files, instance, db, memory_lock, clock, call, lock, pc, frame>>

NextRead == GetFileContent

SpecRead == InitRead /\ [][NextRead]_vars

\* C7: when readFile(s, f, max) returns success the file whose content is
\* returned lies inside s's own session directory, and it is the file that was
\* opened; a filename the guard rejects gets an error envelope before any
\* existence check or read.
C7_ReadStaysInside ==
    (call.op = "get_file_content" /\ ret.kind = "envelope") =>
        /\ ret.status = "success" =>
               LET p == Components(ret.content[2])
                   d == Components(abspath(sessions[call.session_id]["session_dir"]))
               IN  /\ Len(p) > Len(d)
                   /\ SubSeq(p, 1, Len(d)) = d
                   /\ \A i \in 1..Len(fsops) : fsops[i][2] = ret.content[2]
        /\ ~_is_safe_filename(call.filename) => (ret.status = "error" /\ fsops = <<>>)

\* C7 witness: file a of session s was read while a file of the same name
\* lay in the sibling directory of session sb and in the base directory.
C7_Witness ==
    /\ call.op = "get_file_content"
    /\ call.session_id = <<"s">>
    /\ call.filename = <<"a">>
    /\ files = ArtifactFiles
    /\ instance = Constructed
    /\ ret.kind = "envelope"
    /\ ret.status = "success"
    /\ ret.content = <<"text", <<"/", "w", "/", "d", "/", "s", "/", "a">> >>

---------------------------------------------------------------------------
(* AgentTools.refine_search_query, as one call in a single-threaded run *)

\* the characters str.strip() removes that occur in the inputs
StripChars == {" ", "\t", "\n", "\r"}

\* s.strip()
strip(s) ==
    LET kept == { i \in 1..Len(s) : s[i] \notin StripChars }
    IN  IF kept = {} THEN <<>>
        ELSE SubSeq(s, CHOOSE i \in kept : \A j \in kept : i <= j,
                       CHOOSE i \in kept : \A j \in kept : i >= j)

QueryData(new_query, now) == [query |-> new_query, query_updated_at |-> now]

\* previous_query is read with get_status after set_status has stored the
\* new query
refine_search_query(tbl, dsk, now, session_id, new_query, outcome) ==
    IF new_query = <<>> \/ strip(new_query) = <<>>
    THEN Out(tbl, dsk, Envelope("error", <<"Query nao pode estar vazia">>, EmptyDict))
    ELSE LET stripped == strip(new_query)
             session_dir == get_session_directory(tbl, session_id)
         IN  IF session_dir.kind = "none" \/ session_dir.value = <<>>
             THEN Out(tbl, dsk, NotFound(session_id))
             ELSE LET status == DictGet(get_status(tbl, session_id).value, "status", "idle")
                      a == set_status(tbl, dsk, now, session_id, status, <<>>,
                                      QueryData(stripped, now), outcome)
                  IN  IF a.ret.value
                      THEN Out(a.sessions, a.disk,
                               Envelope("success", <<"Query de busca atualizada com sucesso">>,
                                        [ session_id |-> session_id,
                                          new_query |-> stripped,
                                          previous_query |->
                                              DictGet(get_status(a.sessions, session_id).value,
                                                      "query", <<>>) ]))
                      ELSE Out(a.sessions, a.disk,
                               Envelope("error", <<"Falha ao atualizar query">>, EmptyDict))

---------------------------------------------------------------------------
(* The interleaved specification: threads call into the manager and the     *)
(* facade.  A method that runs "with self._lock" takes two steps: it         *)
(* acquires the lock, then runs its body and releases the lock.             *)
(* get_session_directory takes no lock: its membership test and its read    *)
(* of the record are separate steps.  A facade call is the sequence of the  *)
(* manager calls it makes.                                                  *)

ConcSessionIds == { <<"s">> }

LockedOps ==
    { "register_session", "set_status", "get_status", "update_progress",
      "add_error_log", "list_sessions", "delete_session" }

ConcCalls ==
    { [op |-> "register_session", session_id |-> sid, query |-> <<"q">>] :
          sid \in ConcSessionIds }
    \cup { [op |-> "set_status", session_id |-> sid, status |-> st] :
               sid \in ConcSessionIds, st \in Statuses }
    \cup { [op |-> o, session_id |-> sid] :
               o \in { "get_status", "update_progress", "add_error_log", "list_sessions",
                       "delete_session", "get_session_directory", "pause_workflow",
                       "resume_workflow" },
               sid \in ConcSessionIds }
    \cup { [op |-> "refine_search_query", session_id |-> sid, new_query |-> <<" ", "n">>] :
               sid \in ConcSessionIds }

Running1 ==
    set_status(Registered1.sessions, Registered1.disk, 1, <<"s">>, "running", <<>>,
               EmptyDict, "ok")

Paused1 ==
    set_status(Registered1.sessions, Registered1.disk, 1, <<"s">>, "paused", <<>>,
               EmptyDict, "ok")

ConcTables == { Out(EmptyDict, EmptyDict, NoRet), Registered1, Running1, Paused1 }

IdleFrame == [call |-> NoCall, ret |-> NoRet, n |-> 0]

InitConc ==
    /\ \E t \in ConcTables :
           /\ sessions = t.sessions
           /\ disk = t.disk
           /\ clock = IF t.sessions = EmptyDict THEN 0
                      ELSE t.sessions[<<"s">>]["updated_at"] + 1
    /\ files = EmptyDict
    /\ instance = Constructed
    /\ db = EmptyDb
    /\ memory_lock = NoThread
    /\ call = NoCall
    /\ ret = NoRet
    /\ fsops = <<>>
    /\ lock = NoThread
    /\ pc = [t \in Threads |-> "idle"]
    /\ frame = [t \in Threads |-> IdleFrame]

\* the calls started so far, by all threads
Started == frame["t1"].n + frame["t2"].n

FirstLabel(op) ==
    CASE op \in LockedOps -> "m_lock"
      [] op = "get_session_directory" -> "gsd_check"
      [] op = "pause_workflow" -> "pw_get_lock"
      [] op = "resume_workflow" -> "rw_get_lock"
      [] op = "refine_search_query" -> "rq_dir_check"

\* the labels at which a thread waits for the lock, and where it goes
LockLabels ==
    [ m_lock |-> "m_body", pw_get_lock |-> "pw_get_body", pw_set_lock |-> "pw_set_body",
      pw_log_lock |-> "pw_log_body", rw_get_lock |-> "rw_get_body",
      rw_set_lock |-> "rw_set_body", rq_get_lock |-> "rq_get_body",
      rq_set_lock |-> "rq_set_body", rq_prev_lock |-> "rq_prev_body" ]

Goto(t, label) == pc' = [pc EXCEPT ![t] = label]

Return(t, r) ==
    /\ frame' = [frame EXCEPT ![t] = ("ret" :> r) @@ @]
    /\ Goto(t, "done")

Start(t) ==
    /\ pc[t] \in {"idle", "done"}
    /\ Started < MaxConcOps
    /\ \E c \in ConcCalls :
           /\ frame' = [frame EXCEPT ![t] = [call |-> c, ret |-> NoRet, n |-> @.n + 1]]
           /\ Goto(t, FirstLabel(c.op))
    /\ UNCHANGED <<sessions, disk, files, instance, db, memory_lock, clock, call, ret, fsops, lock>>

\* "with self._lock:" entered
Acquire(t) ==
    /\ pc[t] \in DOMAIN LockLabels
    /\ lock = NoThread
    /\ lock' = t
    /\ Goto(t, LockLabels[pc[t]])
    /\ UNCHANGED <<sessions, disk, files, instance, db, memory_lock, clock, call, ret, fsops, frame>>

\* what the body of a locked manager method does
ManagerEffect(c, outcome) ==
    CASE c.op = "register_session" ->
             register_session(sessions, disk, clock, c.session_id, c.query, EmptyDict,
                              outcome # "mkdir_fails",
                              IF outcome = "mkdir_fails" THEN "ok" ELSE outcome)
      [] c.op = "set_status" ->
             set_status(sessions, disk, clock, c.session_id, c.status, <<>>, EmptyDict,
                        outcome)
      [] c.op = "get_status" -> Out(sessions, disk, get_status(sessions, c.session_id))
      [] c.op = "update_progress" ->
             update_progress(sessions, disk, clock, c.session_id, "m", 3, 10, outcome)
      [] c.op = "add_error_log" ->
             add_error_log(sessions, disk, clock, c.session_id, "boom", "mod", outcome)
      [] c.op = "list_sessions" -> Out(sessions, disk, list_sessions(sessions, <<>>))

\* the outcomes the environment can give the body of a call
EffectOutcomes(c) ==
    CASE c.op = "register_session" -> WriteOutcomes \cup {"mkdir_fails"}
      [] c.op \in {"get_status", "list_sessions"} -> {"ok"}
      [] OTHER -> WriteOutcomes

\* the body of a locked manager method other than delete_session, and the
\* release of the lock
ManagerBody(t) ==
    /\ pc[t] = "m_body"
    /\ frame[t].call.op # "delete_session"
    /\ \E outcome \in EffectOutcomes(frame[t].call) :
           LET o == ManagerEffect(frame[t].call, outcome)
           IN  /\ sessions' = o.sessions
               /\ disk' = o.disk
               /\ Return(t, o.ret)
    /\ clock' = IF frame[t].call.op \in {"get_status", "list_sessions"}
                THEN clock ELSE clock + 1
    /\ lock' = NoThread
    /\ UNCHANGED <<files, instance, db, memory_lock, call, ret, fsops>>

\* delete_session up to "del self.sessions[session_id]"
DeleteFromTable(t) ==
    /\ pc[t] = "m_body"
    /\ frame[t].call.op = "delete_session"
    /\ IF frame[t].call.session_id \in DOMAIN sessions
       THEN /\ sessions' = RemoveKey(sessions, frame[t].call.session_id)
            /\ frame' = [frame EXCEPT ![t] =
                             ("session_dir" :>
                                  record_session_dir(sessions[frame[t].call.session_id])) @@ @]
            /\ Goto(t, "del_disk")
            /\ UNCHANGED lock
       ELSE /\ Return(t, RetBool(FALSE))
            /\ lock' = NoThread
            /\ UNCHANGED sessions
    /\ UNCHANGED <<disk, files, instance, db, memory_lock, clock, call, ret, fsops>>

\* delete_session from shutil.rmtree to the release of the lock
DeleteFromDisk(t) ==
    /\ pc[t] = "del_disk"
    /\ \E outcome \in RmtreeOutcomes :
           LET o == remove_session_dir(disk, frame[t].call.session_id,
                                       frame[t].session_dir, outcome)
           IN  /\ disk' = o.disk
               /\ Return(t, o.ret)
    /\ lock' = NoThread
    /\ clock' = clock + 1
    /\ UNCHANGED <<sessions, files, instance, db, memory_lock, call, ret, fsops>>

\* get_session_directory, line 402: the membership test, without the lock
GsdCheck(t) ==
    /\ pc[t] = "gsd_check"
    /\ IF frame[t].call.session_id \in DOMAIN sessions
       THEN Goto(t, "gsd_read") /\ UNCHANGED frame
       ELSE Return(t, RetNone)
    /\ UNCHANGED <<sessions, disk, files, instance, db, memory_lock, clock, call, ret, fsops, lock>>

\* get_session_directory, line 403: the read of the record, without the lock;
\* self.sessions[session_id] raises KeyError when the key is gone
GsdRead(t) ==
    /\ pc[t] = "gsd_read"
    /\ IF frame[t].call.session_id \in DOMAIN sessions
       THEN Return(t, get_session_directory(sessions, frame[t].call.session_id))
       ELSE Return(t, RetRaise("KeyError"))
    /\ UNCHANGED <<sessions, disk, files, instance, db, memory_lock, clock, call, ret, fsops, lock>>

\* pause_workflow / resume_workflow: get_status under the lock, then the test
\* of the copy it returned
FacadeGetStatus(t) ==
    /\ pc[t] \in {"pw_get_body", "rw_get_body"}
    /\ LET c == frame[t].call
           pausing == pc[t] = "pw_get_body"
           current_status == get_status(sessions, c.session_id)
       IN  IF current_status.kind = "none"
           THEN Return(t, NotFound(c.session_id))
           ELSE IF pausing /\ ~MayPause(current_status.value)
           THEN Return(t, Envelope("warning", <<"Sessao nao esta executando", c.session_id,
                                   current_status.value["status"]>>, EmptyDict))
           ELSE IF ~pausing /\ ~MayResume(current_status.value)
           THEN Return(t, Envelope("warning", <<"Sessao nao esta pausada", c.session_id,
                                   current_status.value["status"]>>, EmptyDict))
           ELSE /\ frame' = [frame EXCEPT ![t] =
                                ("current_status" :> current_status.value) @@ @]
                /\ Goto(t, IF pausing THEN "pw_set_lock" ELSE "rw_set_lock")
    /\ lock' = NoThread
    /\ UNCHANGED <<sessions, disk, files, instance, db, memory_lock, clock, call, ret, fsops>>

\* pause_workflow: set_status(session_id, 'paused', ...) under the lock
PauseSetStatus(t) ==
    /\ pc[t] = "pw_set_body"
    /\ \E outcome \in WriteOutcomes :
           LET c == frame[t].call
               o == set_status(sessions, disk, clock, c.session_id, "paused", <<>>,
                               PauseData("Pausado pelo usuario", clock), outcome)
           IN  /\ sessions' = o.sessions
               /\ disk' = o.disk
               /\ IF o.ret.value
                  THEN Goto(t, "pw_log_lock") /\ UNCHANGED frame
                  ELSE Return(t, Envelope("error", <<"Falha ao pausar workflow">>, EmptyDict))
    /\ clock' = clock + 1
    /\ lock' = NoThread
    /\ UNCHANGED <<files, instance, db, memory_lock, call, ret, fsops>>

\* pause_workflow: add_error_log under the lock, then the success envelope
PauseAddErrorLog(t) ==
    /\ pc[t] = "pw_log_body"
    /\ \E outcome \in WriteOutcomes :
           LET c == frame[t].call
               o == add_error_log(sessions, disk, clock, c.session_id,
                                  PauseMessage("Pausado pelo usuario"), "AgentTools", outcome)
           IN  /\ sessions' = o.sessions
               /\ disk' = o.disk
               /\ Return(t, Envelope("success", <<"Workflow pausado com sucesso">>,
                                     [session_id |-> c.session_id,
                                      reason |-> "Pausado pelo usuario"]))
    /\ clock' = clock + 1
    /\ lock' = NoThread
    /\ UNCHANGED <<files, instance, db, memory_lock, call, ret, fsops>>

\* resume_workflow: set_status(session_id, 'idle', ...) under the lock
ResumeSetStatus(t) ==
    /\ pc[t] = "rw_set_body"
    /\ \E outcome \in WriteOutcomes :
           LET c == frame[t].call
               o == set_status(sessions, disk, clock, c.session_id, "idle", <<>>,
                               ResumeData(clock), outcome)
               cs == frame[t].current_status
           IN  /\ sessions' = o.sessions
               /\ disk' = o.disk
               /\ IF o.ret.value
                  THEN Return(t, Envelope("success", <<"Sessao preparada para retomar">>,
                                   [session_id |-> c.session_id,
                                    next_step |-> IF "current_step" \in DOMAIN cs
                                                  THEN cs["current_step"] ELSE 0]))
                  ELSE Return(t, Envelope("error",
                                   <<"Falha ao preparar sessao para retomar">>, EmptyDict))
    /\ clock' = clock + 1
    /\ lock' = NoThread
    /\ UNCHANGED <<files, instance, db, memory_lock, call, ret, fsops>>

\* the envelope of the except clause of a facade action: str(e)
Failed(e) == Envelope("error", <<e>>, EmptyDict)

\* refine_search_query: get_session_directory, line 402, without the lock
RefineDirCheck(t) ==
    /\ pc[t] = "rq_dir_check"
    /\ IF frame[t].call.session_id \in DOMAIN sessions
       THEN Goto(t, "rq_dir_read") /\ UNCHANGED frame
       ELSE Return(t, NotFound(frame[t].call.session_id))
    /\ UNCHANGED <<sessions, disk, files, instance, db, memory_lock, clock, call, ret, fsops, lock>>

\* refine_search_query: get_session_directory, line 403, without the lock,
\* and the test of what it returned
RefineDirRead(t) ==
    /\ pc[t] = "rq_dir_read"
    /\ LET c == frame[t].call
       IN  IF c.session_id \notin DOMAIN sessions
           THEN Return(t, Failed("KeyError"))
           ELSE IF get_session_directory(sessions, c.session_id).kind = "none"
                   \/ get_session_directory(sessions, c.session_id).value = <<>>
           THEN Return(t, NotFound(c.session_id))
           ELSE Goto(t, "rq_get_lock") /\ UNCHANGED frame
    /\ UNCHANGED <<sessions, disk, files, instance, db, memory_lock, clock, call, ret, fsops, lock>>

\* refine_search_query: get_status(session_id).get('status', 'idle'), the
\* second argument of set_status, evaluated before set_status is called
RefineGetStatus(t) ==
    /\ pc[t] = "rq_get_body"
    /\ LET current_status == get_status(sessions, frame[t].call.session_id)
       IN  IF current_status.kind = "none"
           THEN Return(t, Failed("AttributeError"))
           ELSE /\ frame' = [frame EXCEPT ![t] =
                                ("status" :> DictGet(current_status.value, "status", "idle"))
                                    @@ @]
                /\ Goto(t, "rq_set_lock")
    /\ lock' = NoThread
    /\ UNCHANGED <<sessions, disk, files, instance, db, memory_lock, clock, call, ret, fsops>>

\* refine_search_query: set_status(session_id, <the status read>, ...) under
\* the lock
RefineSetStatus(t) ==
    /\ pc[t] = "rq_set_body"
    /\ \E outcome \in WriteOutcomes :
           LET c == frame[t].call
               o == set_status(sessions, disk, clock, c.session_id, frame[t].status, <<>>,
                               QueryData(strip(c.new_query), clock), outcome)
           IN  /\ sessions' = o.sessions
               /\ disk' = o.disk
               /\ IF o.ret.value
                  THEN Goto(t, "rq_prev_lock") /\ UNCHANGED frame
                  ELSE Return(t, Envelope("error", <<"Falha ao atualizar query">>, EmptyDict))
    /\ clock' = clock + 1
    /\ lock' = NoThread
    /\ UNCHANGED <<files, instance, db, memory_lock, call, ret, fsops>>

\* refine_search_query: get_status(session_id).get('query', '') for the
\* success envelope
RefinePrevious(t) ==
    /\ pc[t] = "rq_prev_body"
    /\ LET c == frame[t].call
           current_status == get_status(sessions, c.session_id)
       IN  IF current_status.kind = "none"
           THEN Return(t, Failed("AttributeError"))
           ELSE Return(t, Envelope("success", <<"Query de busca atualizada com sucesso">>,
                                   [ session_id |-> c.session_id,
                                     new_query |-> strip(c.new_query),
                                     previous_query |->
                                         DictGet(current_status.value, "query", <<>>) ]))
    /\ lock' = NoThread
    /\ UNCHANGED <<sessions, disk, files, instance, db, memory_lock, clock, call, ret, fsops>>

NextConc ==
    \E t \in Threads :
        \/ Start(t)
        \/ Acquire(t)
        \/ ManagerBody(t)
        \/ DeleteFromTable(t)
        \/ DeleteFromDisk(t)
        \/ GsdCheck(t)
        \/ GsdRead(t)
        \/ FacadeGetStatus(t)
        \/ PauseSetStatus(t)
        \/ PauseAddErrorLog(t)
        \/ ResumeSetStatus(t)
        \/ RefineDirCheck(t)
        \/ RefineDirRead(t)
        \/ RefineGetStatus(t)
        \/ RefineSetStatus(t)
        \/ RefinePrevious(t)

SpecConc == InitConc /\ [][NextConc]_vars

---------------------------------------------------------------------------
(* Claims about the interleaved specification *)

\* the positions at which a thread is between two accesses to the table, or
\* about to make one
TableSections ==
    { "m_body", "del_disk", "gsd_read", "pw_get_body", "pw_set_body", "pw_log_body",
      "rw_get_body", "rw_set_body", "rq_dir_read", "rq_get_body", "rq_set_body",
      "rq_prev_body" }

\* C2: every access of a public operation to the session table, and the disk
\* write that follows a mutation, happens while the calling thread holds the
\* manager's lock, and no two threads are inside such a section at once.
C2_TableAccessUnderLock ==
    /\ \A t \in Threads : pc[t] \in TableSections => lock = t
    /\ \A t, u \in Threads :
           (pc[t] \in TableSections /\ pc[u] \in TableSections) => t = u

\* C3: under every interleaving with setStatus or deleteSession calls of other
\* threads, pauseWorkflow writes status paused only if the status is exactly
\* running at the moment of the write.
C3_PauseWritesOnlyOverRunning ==
    [][ \A t \in Threads :
            (/\ pc[t] = "pw_set_body"
             /\ pc'[t] # "pw_set_body"
             /\ frame[t].call.session_id \in DOMAIN sessions) =>
                sessions[frame[t].call.session_id]["status"] = "running" ]_vars

---------------------------------------------------------------------------
(* The lifecycle specification: the single-threaded calls of Spec, and with *)
(* them overlays that carry record fields, deletion, listing, a restart of  *)
(* the process (the table is rebuilt by _load_sessions_from_disk) and a     *)
(* crash of the process inside a mutating call.                             *)

\* a progress block whose percentage does not follow from its step counts
StaleProgress ==
    [ total_steps |-> 10, completed_steps |-> 3, current_module |-> "m",
      progress_percentage |-> 9900 ]

\* initial_data / additional_data that carry fields of the record itself
OverlayInputs ==
    { [analysis_progress |-> StaleProgress], [session_dir |-> <<>>] }

RegisterWithInitialData ==
    \E session_id \in SessionIds, initial_data \in OverlayInputs, outcome \in WriteOutcomes :
        LET o == register_session(sessions, disk, clock, session_id, <<"r">>, initial_data,
                                  TRUE, outcome)
        IN  /\ clock < MaxClock
            /\ sessions' = o.sessions
            /\ disk' = o.disk
            /\ ret' = o.ret
            /\ call' = [op |-> "register_session", session_id |-> session_id,
                        query |-> <<"r">>, initial_data |-> initial_data]
            /\ clock' = clock + 1
            /\ UNCHANGED others

SetStatusOverlay ==
    \E session_id \in SessionIds, additional_data \in OverlayInputs,
       outcome \in WriteOutcomes :
        LET o == set_status(sessions, disk, clock, session_id, "running", <<>>,
                            additional_data, outcome)
        IN  /\ clock < MaxClock
            /\ sessions' = o.sessions
            /\ disk' = o.disk
            /\ ret' = o.ret
            /\ call' = [op |-> "set_status", session_id |-> session_id,
                        status |-> "running", step |-> <<>>,
                        additional_data |-> additional_data]
            /\ clock' = clock + 1
            /\ UNCHANGED others

DeleteSession ==
    \E session_id \in SessionIds, outcome \in RmtreeOutcomes :
        LET o == delete_session(sessions, disk, session_id, outcome)
        IN  /\ clock < MaxClock
            /\ sessions' = o.sessions
            /\ disk' = o.disk
            /\ ret' = o.ret
            /\ call' = [op |-> "delete_session", session_id |-> session_id]
            /\ clock' = clock + 1
            /\ UNCHANGED others

ListSessions ==
    \E status_filter \in { <<>>, <<"running">> } :
        /\ ret' = list_sessions(sessions, status_filter)
        /\ call' = [op |-> "list_sessions", status_filter |-> status_filter]
        /\ UNCHANGED <<sessions, disk, clock>>
        /\ UNCHANGED others

GetSessionDirectory ==
    \E session_id \in SessionIds :
        /\ ret' = get_session_directory(sessions, session_id)
        /\ call' = [op |-> "get_session_directory", session_id |-> session_id]
        /\ UNCHANGED <<sessions, disk, clock>>
        /\ UNCHANGED others

\* the process ends between two calls and a new one starts:
\* SessionStateManager() runs _load_sessions_from_disk on an empty table
Restart ==
    /\ call.op # "restart"
    /\ sessions' = _load_sessions_from_disk(disk, clock)
    /\ call' = [op |-> "restart"]
    /\ ret' = NoRet
    /\ UNCHANGED <<disk, clock>>
    /\ UNCHANGED others

\* the mutating calls on a registered session during which the process may die
CrashCalls ==
    { [op |-> "set_status", session_id |-> sid, status |-> st] :
          sid \in SessionIds, st \in {"running", "completed"} }
    \cup { [op |-> "add_error_log", session_id |-> sid] : sid \in SessionIds }

\* what a mutating call does when the process does not die
CallEffect(c, outcome) ==
    CASE c.op = "set_status" ->
             set_status(sessions, disk, clock, c.session_id, c.status, <<>>, EmptyDict,
                        outcome)
      [] c.op = "add_error_log" ->
             add_error_log(sessions, disk, clock, c.session_id, "boom", "mod", outcome)

\* where the process dies inside _save_session_to_disk, and what the document
\* is then: untouched before open(config_path, 'w'), truncated or partly
\* written between open and the end of json.dump, whole after it
CrashPoints ==
    [ before_open |-> "open_fails", inside_dump |-> "write_fails", after_dump |-> "ok" ]

\* the process dies inside a mutating call and a new one starts
Crash ==
    \E c \in CrashCalls, point \in DOMAIN CrashPoints :
        LET o == CallEffect(c, CrashPoints[point])
        IN  /\ clock < MaxClock
            /\ c.session_id \in DOMAIN sessions
            /\ disk' = o.disk
            /\ sessions' = _load_sessions_from_disk(o.disk, clock + 1)
            /\ call' = [op |-> "crash", during |-> c, point |-> point]
            /\ ret' = NoRet
            /\ clock' = clock + 1
            /\ UNCHANGED others

NextLife ==
    \/ Next
    \/ RegisterWithInitialData
    \/ SetStatusOverlay
    \/ DeleteSession
    \/ ListSessions
    \/ GetSessionDirectory
    \/ Restart
    \/ Crash

SpecLife == Init /\ [][NextLife]_vars

---------------------------------------------------------------------------
(* Claims about the lifecycle specification *)

\* what getStatus shows of a record, updated_at aside
ViewExceptUpdatedAt(record) == Without(record, excluded_fields \cup {"updated_at"})

\* the session's document on disk is the one its last mutation wrote
Persisted(s) ==
    /\ s \in DOMAIN sessions
    /\ s \in DOMAIN disk
    /\ disk[s] = Doc(Without(sessions[s], excluded_fields))

\* C12: for every session whose record was persisted, discarding the table
\* and re-running the startup load yields a getStatus result equal to the
\* pre-restart one in every field except updated_at -- overlay fields such as
\* pause_reason, paused_at and ready_to_resume included.
C12_ReloadKeepsRecord ==
    [][ call'.op = "restart" =>
            \A s \in DOMAIN sessions :
                Persisted(s) =>
                    /\ s \in DOMAIN sessions'
                    /\ ViewExceptUpdatedAt(sessions'[s]) = ViewExceptUpdatedAt(sessions[s])
      ]_vars

\* C13: when the process dies at any point of a mutating call, also in the
\* middle of rewriting the document, the next startup load restores every
\* session that had been persisted before, from the document as it was before
\* the interrupted call or as the call would have left it; none is missing
\* from the table or read from a partial document.
C13_CrashKeepsPersisted ==
    [][ call'.op = "crash" =>
            \A s \in DOMAIN disk :
                disk[s].doc = "ok" =>
                    /\ s \in DOMAIN sessions'
                    /\ disk'[s] \in { disk[s], CallEffect(call'.during, "ok").disk[s] }
      ]_vars

\* C15: in every state reachable by the manager's operations a session's
\* progress_percentage is completed_steps / total_steps * 100 rounded to two
\* decimals (held here in hundredths of a percent), computed from the stored
\* step counts, and 0 when total_steps is 0; updateProgress(s, m, 3, 10)
\* gives 30.0 and updateProgress(s, m, 0, 0) gives 0.
C15_ProgressFollowsSteps ==
    /\ \A s \in DOMAIN sessions :
           LET p == sessions[s]["analysis_progress"]
           IN  /\ p["total_steps"] = 0 => p["progress_percentage"] = 0
               /\ p["total_steps"] > 0 =>
                      LET exact == p["completed_steps"] * 10000
                          shown == p["progress_percentage"] * p["total_steps"]
                      IN  /\ 2 * (shown - exact) <= p["total_steps"]
                          /\ 2 * (exact - shown) <= p["total_steps"]
    /\ (call.op = "update_progress" /\ ret = RetBool(TRUE)) =>
           LET p == sessions[call.session_id]["analysis_progress"]
           IN  /\ (call.completed_steps = 3 /\ call.total_steps = 10) =>
                      p["progress_percentage"] = 3000
               /\ (call.completed_steps = 0 /\ call.total_steps = 0) =>
                      p["progress_percentage"] = 0

\* C16: after deleteSession(s) returns true, getStatus(s) and
\* getSessionDirectory(s) return absent, s is not in listSessions, the
\* session directory no longer exists on disk, and a restart does not bring s
\* back.
C16_DeletedIsGone ==
    [][ (call'.op = "delete_session" /\ ret' = RetBool(TRUE)) =>
            LET s == call'.session_id
                listed == list_sessions(sessions', <<>>).value
            IN  /\ get_status(sessions', s) = RetNone
                /\ get_session_directory(sessions', s) = RetNone
                /\ \A i \in 1..Len(listed) : listed[i]["session_id"] # s
                /\ s \notin DOMAIN disk'
                /\ s \notin DOMAIN _load_sessions_from_disk(disk', clock')
      ]_vars

---------------------------------------------------------------------------
(* The specification of registration over a populated table: the initial    *)
(* state draws a table that earlier calls built, the step is one            *)
(* register_session call.                                                   *)

\* the tables one mutating call on session s makes of table t at time now
MutationsOf(t, now) ==
    { set_status(t.sessions, t.disk, now, <<"s">>, st, step, EmptyDict, o) :
          st \in Statuses, step \in StepInputs, o \in WriteOutcomes }
    \cup { update_progress(t.sessions, t.disk, now, <<"s">>, p[1], p[2], p[3], o) :
               p \in ProgressInputs, o \in WriteOutcomes }
    \cup { add_error_log(t.sessions, t.disk, now, <<"s">>, e[1], e[2], o) :
               e \in ErrorInputs, o \in WriteOutcomes }
    \cup { pause_workflow(t.sessions, t.disk, now, <<"s">>, r, o, o) :
               r \in Reasons, o \in WriteOutcomes }
    \cup { resume_workflow(t.sessions, t.disk, now, <<"s">>, o) : o \in WriteOutcomes }

\* tables reached by one or two registrations and up to two mutating calls
PopulatedTables ==
    LET base == { Registered1, Registered2 }
        once == UNION { MutationsOf(t, 2) : t \in base }
        twice == UNION { MutationsOf(t, 3) : t \in once }
    IN  base \cup once \cup twice

InitReg ==
    /\ \E t \in PopulatedTables :
           /\ sessions = t.sessions
           /\ disk = t.disk
    /\ clock = 4
    /\ files = EmptyDict
    /\ instance = Constructed
    /\ db = EmptyDb
    /\ memory_lock = NoThread
    /\ call = NoCall
    /\ ret = NoRet
    /\ fsops = <<>>
    /\ lock = NoThread
    /\ pc = [t \in Threads |-> "idle"]
    /\ frame = [t \in Threads |-> EmptyDict]

RegisterOnPopulated ==
    \E session_id \in SessionIds, query \in Queries,
       initial_data \in InitialDataInputs \cup OverlayInputs,
       mkdir_ok \in BOOLEAN, outcome \in WriteOutcomes :
        LET o == register_session(sessions, disk, clock, session_id, query, initial_data,
                                  mkdir_ok, outcome)
        IN  /\ call = NoCall
            /\ sessions' = o.sessions
            /\ disk' = o.disk
            /\ ret' = o.ret
            /\ call' = [op |-> "register_session", session_id |-> session_id,
                        query |-> query, initial_data |-> initial_data]
            /\ clock' = clock + 1
            /\ UNCHANGED others

NextReg == RegisterOnPopulated

SpecReg == InitReg /\ [][NextReg]_vars

\* C11: registerSession on an id that is already in the table -- whatever its
\* status and history, and whatever query and initialData the call passes --
\* returns false and leaves the table and the disk exactly as they were.
C11_ReRegisterRejected ==
    [][ (call'.op = "register_session" /\ call'.session_id \in DOMAIN sessions) =>
            /\ ret' = RetBool(FALSE)
            /\ sessions' = sessions
            /\ disk' = disk ]_vars

\* C11 witness: a paused session with query q was registered again with
\* another query and with initial data; the call returned false.
C11_Witness ==
    /\ call.op = "register_session"
    /\ ret = RetBool(FALSE)
    /\ call.session_id \in DOMAIN sessions
    /\ sessions[call.session_id]["status"] = "paused"
    /\ "pause_reason" \in DOMAIN sessions[call.session_id]
    /\ call.query # sessions[call.session_id]["query"]
    /\ call.initial_data # EmptyDict

---------------------------------------------------------------------------
(* The specification of the error log: one registered session, a long run   *)
(* of add_error_log calls, and one set_status call that starts the session, *)
(* with or without an error_log of the caller's own in additional_data.     *)

\* a log one entry longer than the cap, as a caller may pass it
LongLog ==
    [ i \in 1..(error_log_cap + 1) |->
          [timestamp |-> 0, module |-> "ext", message |-> "old"] ]

LogOverlayInputs == { EmptyDict, [error_log |-> LongLog] }

InitLog ==
    /\ sessions = Registered1.sessions
    /\ disk = Registered1.disk
    /\ clock = 1
    /\ files = EmptyDict
    /\ instance = Constructed
    /\ db = EmptyDb
    /\ memory_lock = NoThread
    /\ call = [op |-> "register_session", session_id |-> <<"s">>, query |-> <<"q">>,
               initial_data |-> EmptyDict]
    /\ ret = Registered1.ret
    /\ fsops = <<>>
    /\ lock = NoThread
    /\ pc = [t \in Threads |-> "idle"]
    /\ frame = [t \in Threads |-> EmptyDict]

LogAppend ==
    \E e \in ErrorInputs, outcome \in WriteOutcomes :
        LET o == add_error_log(sessions, disk, clock, <<"s">>, e[1], e[2], outcome)
        IN  /\ clock <= MaxLogCalls
            /\ sessions' = o.sessions
            /\ disk' = o.disk
            /\ ret' = o.ret
            /\ call' = [op |-> "add_error_log", session_id |-> <<"s">>,
                        error_message |-> e[1], module_name |-> e[2]]
            /\ clock' = clock + 1
            /\ UNCHANGED others

\* the session is started, once
LogStart ==
    \E additional_data \in LogOverlayInputs, outcome \in WriteOutcomes :
        LET o == set_status(sessions, disk, clock, <<"s">>, "running", <<>>,
                            additional_data, outcome)
        IN  /\ clock <= MaxLogCalls
            /\ sessions[<<"s">>]["status"] = "idle"
            /\ sessions' = o.sessions
            /\ disk' = o.disk
            /\ ret' = o.ret
            /\ call' = [op |-> "set_status", session_id |-> <<"s">>, status |-> "running",
                        step |-> <<>>, additional_data |-> additional_data]
            /\ clock' = clock + 1
            /\ UNCHANGED others

NextLog == LogAppend \/ LogStart

SpecLog == InitLog /\ [][NextLog]_vars

\* C14: in every reachable state a session's error_log has at most 50
\* entries (the cap of add_error_log).
C14_ErrorLogCapped ==
    \A s \in DOMAIN sessions : Len(sessions[s]["error_log"]) <= error_log_cap

---------------------------------------------------------------------------
(* The specification of the conversation store: the one ConversationMemory  *)
(* of the process (conversation_memory, the module's instance) and the      *)
(* calls made on it.  Every public method runs its whole body inside        *)
(* "with self._lock", so a call is one step, taken while the lock is free.  *)
(* The clock is read once by each call that stamps a row; two calls never   *)
(* read the same instant, a commit lying between them.                      *)

managerVars == <<sessions, disk, files, fsops, lock, pc, frame, instance>>

\* a turn as its caller passes it: the defaults, and every optional field set
TurnInputs ==
    { [ role |-> "user", message |-> <<"h", "i">>, metadata |-> <<>>,
        tokens_used |-> 0, model_used |-> <<>>, tool_calls |-> <<>> ],
      [ role |-> "agent", message |-> <<"y", "o">>, metadata |-> [k |-> 1],
        tokens_used |-> 3, model_used |-> <<"m">>, tool_calls |-> <<[name |-> "t"]>> ] }

\* limits: SQLite's "no limit", none, fewer than a history of two, the default
Limits == {-1, 0, 1, 50}

SummaryInputs == { <<"s", "u", "m">> }

InitStore ==
    /\ sessions = EmptyDict
    /\ disk = EmptyDict
    /\ files = EmptyDict
    /\ instance = Constructed
    /\ clock = 1
    /\ call = NoCall
    /\ ret = NoRet
    /\ fsops = <<>>
    /\ lock = NoThread
    /\ pc = [t \in Threads |-> "idle"]
    /\ frame = [t \in Threads |-> EmptyDict]
    /\ db = EmptyDb
    /\ memory_lock = NoThread

AddMessage ==
    \E session_id \in SessionIds, turn \in TurnInputs, outcome \in AppendOutcomes :
        LET o == add_message(db, clock, session_id, turn, outcome)
        IN  /\ memory_lock = NoThread
            /\ clock <= MaxAppends
            /\ db' = o.db
            /\ ret' = o.ret
            /\ call' = [op |-> "add_message", session_id |-> session_id, turn |-> turn,
                        store |-> outcome]
            /\ clock' = clock + 1
            /\ UNCHANGED <<managerVars, memory_lock>>

GetConversationHistory ==
    \E session_id \in SessionIds, limit \in Limits, include_metadata \in BOOLEAN,
       outcome \in QueryOutcomes :
        /\ memory_lock = NoThread
        /\ ret' = get_conversation_history(db, session_id, limit, include_metadata, outcome)
        /\ call' = [op |-> "get_conversation_history", session_id |-> session_id,
                    limit |-> limit, include_metadata |-> include_metadata,
                    store |-> outcome]
        /\ UNCHANGED <<managerVars, memory_lock, db, clock>>

GetContextForAi ==
    \E session_id \in SessionIds, context_limit \in Limits, outcome \in QueryOutcomes :
        /\ memory_lock = NoThread
        /\ ret' = get_context_for_ai(db, session_id, context_limit, outcome)
        /\ call' = [op |-> "get_context_for_ai", session_id |-> session_id,
                    context_limit |-> context_limit, store |-> outcome]
        /\ UNCHANGED <<managerVars, memory_lock, db, clock>>

GetSessionSummary ==
    \E session_id \in SessionIds, outcome \in QueryOutcomes :
        /\ memory_lock = NoThread
        /\ ret' = get_session_summary(db, session_id, outcome)
        /\ call' = [op |-> "get_session_summary", session_id |-> session_id,
                    store |-> outcome]
        /\ UNCHANGED <<managerVars, memory_lock, db, clock>>

UpdateSessionSummary ==
    \E session_id \in SessionIds, summary \in SummaryInputs, outcome \in QueryOutcomes :
        LET o == update_session_summary(db, clock, session_id, summary, outcome)
        IN  /\ memory_lock = NoThread
            /\ clock <= MaxAppends
            /\ db' = o.db
            /\ ret' = o.ret
            /\ call' = [op |-> "update_session_summary", session_id |-> session_id,
                        summary |-> summary, store |-> outcome]
            /\ clock' = clock + 1
            /\ UNCHANGED <<managerVars, memory_lock>>

ClearSessionHistory ==
    \E session_id \in SessionIds, outcome \in QueryOutcomes :
        LET o == clear_session_history(db, session_id, outcome)
        IN  /\ memory_lock = NoThread
            /\ db' = o.db
            /\ ret' = o.ret
            /\ call' = [op |-> "clear_session_history", session_id |-> session_id,
                        store |-> outcome]
            /\ UNCHANGED <<managerVars, memory_lock, clock>>

NextStore ==
    \/ AddMessage
    \/ GetConversationHistory
    \/ GetContextForAi
    \/ GetSessionSummary
    \/ UpdateSessionSummary
    \/ ClearSessionHistory

SpecStore == InitStore /\ [][NextStore]_vars


---------------------------------------------------------------------------
(* Claims about the conversation store *)

RECURSIVE SumTokens(_)
SumTokens(turns) ==
    IF turns = <<>> THEN 0 ELSE Head(turns).tokens_used + SumTokens(Tail(turns))

\* the rollup of session s agrees with the stored turns of s
RollupMatchesTurns(d, s) ==
    LET turns == TurnsOf(d, s)
    IN  /\ (s \in DOMAIN d.session_summaries) <=> (turns # <<>>)
        /\ s \in DOMAIN d.session_summaries =>
              /\ d.session_summaries[s].total_messages = Len(turns)
              /\ d.session_summaries[s].total_tokens = SumTokens(turns)
              /\ d.session_summaries[s].first_message_at = turns[1].timestamp
              /\ d.session_summaries[s].last_message_at = turns[Len(turns)].timestamp

\* C17: in every reachable state of the store a rollup exists for a session
\* exactly when the session has a turn, and then it counts the turns, sums
\* their tokens_used and carries the timestamps of the first and latest turn.
C17_RollupMatchesTurns ==
    \A s \in SessionIds : RollupMatchesTurns(db, s)

\* what a caller reads of a stored row in a returned turn
TurnView(t) == [session_id |-> t.session_id, role |-> t.role, message |-> t.message]

\* C18: a successful add_message appends one row, carrying the role and the
\* message passed, after the rows of its session and leaves the other
\* sessions' rows alone; only a successful clear removes rows; and a history
\* read with a limit of at least the number of rows of the session returns
\* exactly these rows, in the order they were appended.
C18_HistoryIsWhatWasAppended ==
    [][ LET s == call'.session_id
            before == TurnsOf(db, s)
            after == TurnsOf(db', s)
        IN  /\ (call'.op = "add_message" /\ ret' = RetBool(TRUE)) =>
                  /\ Len(after) = Len(before) + 1
                  /\ SubSeq(after, 1, Len(before)) = before
                  /\ after[Len(after)].role = call'.turn.role
                  /\ after[Len(after)].message = call'.turn.message
                  /\ \A o \in SessionIds \ {s} : TurnsOf(db', o) = TurnsOf(db, o)
            /\ ~(call'.op = "add_message" /\ ret' = RetBool(TRUE))
                 /\ ~(call'.op = "clear_session_history" /\ ret' = RetBool(TRUE)) =>
                  db'.conversations = db.conversations
            /\ ( /\ call'.op = "get_conversation_history"
                 /\ call'.store = "ok"
                 /\ ~call'.include_metadata
                 /\ call'.limit >= Len(before) ) =>
                  /\ ret'.kind = "record"
                  /\ Len(ret'.value) = Len(before)
                  /\ \A i \in 1..Len(before) : TurnView(ret'.value[i]) = TurnView(before[i])
      ]_vars

\* two turns of different roles were appended to a session and its history
\* was read in full
C18_Witness ==
    /\ call.op = "get_conversation_history"
    /\ call.store = "ok"
    /\ ~call.include_metadata
    /\ Len(TurnsOf(db, call.session_id)) = 2
    /\ call.limit >= 2
    /\ Len(ret.value) = 2
    /\ ret.value[1].role # ret.value[2].role

\* C19: add_message never raises and is all-or-nothing: it returns true with
\* the turn stored and the rollup updated, or false with the store unchanged.
C19_AppendAllOrNothing ==
    [][ call'.op = "add_message" =>
          LET s == call'.session_id
              stored == Len(TurnsOf(db', s)) = Len(TurnsOf(db, s)) + 1
              old_count == IF s \in DOMAIN db.session_summaries
                           THEN db.session_summaries[s].total_messages ELSE 0
              rolled == /\ s \in DOMAIN db'.session_summaries
                        /\ db'.session_summaries[s].total_messages = old_count + 1
          IN  /\ ret'.kind = "bool"
              /\ \/ ret'.value /\ stored /\ rolled
                 \/ ~ret'.value /\ db' = db
      ]_vars

\* the rows of session s by ascending timestamp
AscendingHistory(d, s) ==
    SortSeq(TurnsOf(d, s), LAMBDA a, b : a.timestamp < b.timestamp)

Min(a, b) == IF a < b THEN a ELSE b

\* the first min(limit, n) turns of the ascending history of s: of each, who
\* spoke (the user or not) and what was said
OldestPrefix(d, s, limit) ==
    LET full == AscendingHistory(d, s)
    IN  [ i \in 1..Min(limit, Len(full)) |-> <<full[i].role = "user", full[i].message>> ]

HistoryTurns(result) ==
    [ i \in 1..Len(result) |-> <<result[i].role = "user", result[i].message>> ]

ContextTurns(result) ==
    [ i \in 1..Len(result) |-> <<result[i].role = "user", result[i].content>> ]

HistoryRead ==
    /\ call.op = "get_conversation_history"
    /\ call.store = "ok"
    /\ ~call.include_metadata

ContextRead ==
    /\ call.op = "get_context_for_ai"
    /\ call.store = "ok"

\* C20, as stated: for every limit the history read returns min(limit, n)
\* turns, the oldest ones.
C20_PrefixForEveryLimit ==
    /\ HistoryRead =>
          HistoryTurns(ret.value) = OldestPrefix(db, call.session_id, call.limit)
    /\ ContextRead =>
          ContextTurns(ret.value) = OldestPrefix(db, call.session_id, call.context_limit)

\* C20, amended: for every limit that is a count (limit >= 0) the history
\* read, and the context built from it, returns min(limit, n) turns, the
\* oldest ones; a negative limit returns the whole history, oldest first.
C20_PrefixForCountLimits ==
    /\ HistoryRead =>
          LET n == Len(TurnsOf(db, call.session_id))
          IN  HistoryTurns(ret.value) =
                  OldestPrefix(db, call.session_id, IF call.limit >= 0 THEN call.limit ELSE n)
    /\ ContextRead =>
          LET n == Len(TurnsOf(db, call.session_id))
          IN  ContextTurns(ret.value) =
                  OldestPrefix(db, call.session_id,
                               IF call.context_limit >= 0 THEN call.context_limit ELSE n)

\* a session of two different turns was read with a limit of one, and the
\* read returned its first turn and not its last
C20_Witness ==
    /\ HistoryRead
    /\ call.limit = 1
    /\ Len(TurnsOf(db, call.session_id)) = 2
    /\ Len(ret.value) = 1
    /\ ret.value[1].id = TurnsOf(db, call.session_id)[1].id
    /\ TurnsOf(db, call.session_id)[2].message # TurnsOf(db, call.session_id)[1].message

\* every row of the first store is a row of the second, unaltered
RowsKept(d1, d2) ==
    \A i \in 1..Len(d1.conversations) :
        \E j \in 1..Len(d2.conversations) : d2.conversations[j] = d1.conversations[i]

\* C21: after clear_session_history(s) returns true the history of s reads
\* empty and its summary reads absent, while the turns and the rollup of
\* every other session are as before; no other step alters or removes a
\* stored turn.
C21_ClearRemovesOneSession ==
    [][ IF call'.op = "clear_session_history" /\ ret' = RetBool(TRUE)
        THEN LET s == call'.session_id
             IN  /\ get_conversation_history(db', s, 50, FALSE, "ok") = RetRecord(<<>>)
                 /\ get_session_summary(db', s, "ok") = RetNone
                 /\ \A o \in SessionIds \ {s} :
                       /\ TurnsOf(db', o) = TurnsOf(db, o)
                       /\ get_session_summary(db', o, "ok") = get_session_summary(db, o, "ok")
        ELSE RowsKept(db, db')
      ]_vars

\* a session with a turn and a rollup was cleared while another session
\* holds a turn and a rollup of its own
C21_Witness ==
    /\ call.op = "clear_session_history"
    /\ ret = RetBool(TRUE)
    /\ TurnsOf(db, call.session_id) = <<>>
    /\ db.last_id = 2
    /\ \E o \in SessionIds \ {call.session_id} :
          /\ Len(TurnsOf(db, o)) = 1
          /\ o \in DOMAIN db.session_summaries

---------------------------------------------------------------------------
(* The specification of the record's fields: sessions are registered and    *)
(* their status set with initial_data / additional_data that name fields    *)
(* the manager itself maintains, with a status inside or outside the five   *)
(* the manager knows, the records are read back, and the process restarts.  *)

\* overlays naming the internal fields, and naming the identity and the status
FieldOverlays ==
    { EmptyDict,
      [session_dir |-> <<"x">>, config_path |-> <<"x">>],
      [session_id |-> <<"x">>, status |-> "archived"] }

\* a status of the five, and a string that is none of them
StatusArgs == {"running", "archived"}

ViewRegister ==
    \E session_id \in SessionIds, initial_data \in FieldOverlays, outcome \in WriteOutcomes :
        LET o == register_session(sessions, disk, clock, session_id, <<"q">>, initial_data,
                                  TRUE, outcome)
        IN  /\ clock < MaxViewOps
            /\ sessions' = o.sessions
            /\ disk' = o.disk
            /\ ret' = o.ret
            /\ call' = [op |-> "register_session", session_id |-> session_id,
                        query |-> <<"q">>, initial_data |-> initial_data]
            /\ clock' = clock + 1
            /\ UNCHANGED others

ViewSetStatus ==
    \E session_id \in SessionIds, status \in StatusArgs, additional_data \in FieldOverlays,
       outcome \in WriteOutcomes :
        LET o == set_status(sessions, disk, clock, session_id, status, <<>>,
                            additional_data, outcome)
        IN  /\ clock < MaxViewOps
            /\ sessions' = o.sessions
            /\ disk' = o.disk
            /\ ret' = o.ret
            /\ call' = [op |-> "set_status", session_id |-> session_id, status |-> status,
                        step |-> <<>>, additional_data |-> additional_data]
            /\ clock' = clock + 1
            /\ UNCHANGED others

NextView ==
    \/ ViewRegister
    \/ ViewSetStatus
    \/ GetStatus
    \/ ListSessions
    \/ Restart

SpecView == Init /\ [][NextView]_vars

InternalFields == {"session_dir", "config_path"}

\* C22: no record returned by get_status or by list_sessions holds the key
\* session_dir or the key config_path, whatever initial_data and
\* additional_data the calls before it carried.
C22_InternalFieldsStripped ==
    /\ (call.op = "get_status" /\ ret.kind = "record") =>
          DOMAIN ret.value \cap InternalFields = {}
    /\ call.op = "list_sessions" =>
          \A i \in 1..Len(ret.value) : DOMAIN ret.value[i] \cap InternalFields = {}

\* two sessions are listed, one of them registered with a session_dir and a
\* config_path of the caller's in its initial_data
C22_Witness ==
    /\ call.op = "list_sessions"
    /\ Len(ret.value) = 2
    /\ \E s \in DOMAIN sessions : sessions[s]["session_dir"] = <<"x">>

\* C24: the record stored under key s keeps session_id = s through every
\* step that leaves s in the table.
C24_SessionIdNeverChanges ==
    [][ \A s \in DOMAIN sessions \cap DOMAIN sessions' :
            sessions[s]["session_id"] = s => sessions'[s]["session_id"] = s ]_vars

\* C25: in every reachable state the status of every session is one of
\* idle, running, paused, completed, error.
C25_StatusInEnum ==
    \A s \in DOMAIN sessions : sessions[s]["status"] \in Statuses

---------------------------------------------------------------------------
(* The specification of the returned copy: a caller keeps the dictionary    *)
(* get_status returned and writes to it.  dict.copy() makes a new           *)
(* dictionary whose values are the very objects of the record: a list or a  *)
(* dictionary among them is one object, reached from the record and from    *)
(* the copy, until the manager binds a new object to the record's key.      *)
(* frame["t1"] holds the caller's variable: the copy (r), the session it    *)
(* was taken of, and the keys whose value is still shared with the record.  *)

\* the keys of the record whose values are lists or dictionaries
MutableFields == {"error_log", "analysis_progress", "module_results"}

ForgedEntry == [timestamp |-> 0, module |-> "caller", message |-> "forged"]

\* what the caller does to the value under a key of the copy, in place:
\* r['error_log'].append(...), r['analysis_progress']['total_steps'] = 7,
\* r['module_results']['k'] = 1
caller_mutation(field, value) ==
    CASE field = "error_log" -> Append(value, ForgedEntry)
      [] field = "analysis_progress" -> ("total_steps" :> 7) @@ value
      [] OTHER -> ("k" :> 1) @@ value

Holding == "r" \in DOMAIN frame["t1"]

InitCopy ==
    /\ sessions = Registered1.sessions
    /\ disk = Registered1.disk
    /\ clock = 1
    /\ files = EmptyDict
    /\ instance = Constructed
    /\ db = EmptyDb
    /\ memory_lock = NoThread
    /\ call = [op |-> "register_session", session_id |-> <<"s">>, query |-> <<"q">>,
               initial_data |-> EmptyDict]
    /\ ret = Registered1.ret
    /\ fsops = <<>>
    /\ lock = NoThread
    /\ pc = [t \in Threads |-> "idle"]
    /\ frame = [t \in Threads |-> EmptyDict]

\* r = manager.get_status('s')
CopyGetStatus ==
    /\ ret' = get_status(sessions, <<"s">>)
    /\ call' = [op |-> "get_status", session_id |-> <<"s">>]
    /\ frame' = [frame EXCEPT !["t1"] =
                    [ r |-> ret'.value, session_id |-> <<"s">>,
                      shared |-> MutableFields \cap DOMAIN ret'.value ]]
    /\ UNCHANGED <<sessions, disk, clock, files, instance, fsops, lock, pc, db, memory_lock>>

\* r['status'] = 'hacked': a new value bound to a key of the copy
CallerAssignsField ==
    /\ Holding
    /\ frame["t1"].r["status"] # "hacked"
    /\ frame' = [frame EXCEPT !["t1"].r = ("status" :> "hacked") @@ @]
    /\ call' = [op |-> "caller_modifies", session_id |-> frame["t1"].session_id,
                field |-> "status"]
    /\ ret' = NoRet
    /\ UNCHANGED <<sessions, disk, clock, files, instance, fsops, lock, pc, db, memory_lock>>

\* the caller changes, in place, the object under a key of the copy; while
\* the record still holds that object under the same key, the record's
\* value is the changed one
CallerMutatesNested ==
    \E field \in MutableFields :
        LET s == frame["t1"].session_id
            changed == caller_mutation(field, frame["t1"].r[field])
        IN  /\ Holding
            /\ field \in DOMAIN frame["t1"].r
            /\ frame["t1"].r[field] # changed
            /\ (field = "error_log" => Len(changed) <= MaxForged)
            /\ frame' = [frame EXCEPT !["t1"].r = (field :> changed) @@ @]
            /\ sessions' = IF field \in frame["t1"].shared /\ s \in DOMAIN sessions
                           THEN [sessions EXCEPT ![s] = (field :> changed) @@ @]
                           ELSE sessions
            /\ call' = [op |-> "caller_modifies", session_id |-> s, field |-> field]
            /\ ret' = NoRet
            /\ UNCHANGED <<disk, clock, files, instance, fsops, lock, pc, db, memory_lock>>

\* add_error_log appends to the record's list in place, so a copy that
\* shares the list sees the entry; the slice taken above the cap is a new list
CopyAddErrorLog ==
    \E e \in ErrorInputs, outcome \in WriteOutcomes :
        LET o == add_error_log(sessions, disk, clock, <<"s">>, e[1], e[2], outcome)
            entry == [timestamp |-> clock, module |-> e[2], message |-> e[1]]
            sharing == Holding /\ "error_log" \in frame["t1"].shared
            rebound == Len(sessions[<<"s">>]["error_log"]) + 1 > error_log_cap
        IN  /\ clock < MaxClock
            /\ sessions' = o.sessions
            /\ disk' = o.disk
            /\ ret' = o.ret
            /\ call' = [op |-> "add_error_log", session_id |-> <<"s">>,
                        error_message |-> e[1], module_name |-> e[2]]
            /\ clock' = clock + 1
            /\ frame' = IF sharing
                        THEN [frame EXCEPT
                                 !["t1"].r = ("error_log" :> Append(@["error_log"], entry)) @@ @,
                                 !["t1"].shared = IF rebound THEN @ \ {"error_log"} ELSE @]
                        ELSE frame
            /\ UNCHANGED <<files, instance, fsops, lock, pc, db, memory_lock>>

\* update_progress binds a new dictionary to analysis_progress
CopyUpdateProgress ==
    \E p \in ProgressInputs, outcome \in WriteOutcomes :
        LET o == update_progress(sessions, disk, clock, <<"s">>, p[1], p[2], p[3], outcome)
        IN  /\ clock < MaxClock
            /\ sessions' = o.sessions
            /\ disk' = o.disk
            /\ ret' = o.ret
            /\ call' = [op |-> "update_progress", session_id |-> <<"s">>,
                        current_module |-> p[1], completed_steps |-> p[2],
                        total_steps |-> p[3]]
            /\ clock' = clock + 1
            /\ frame' = IF Holding
                        THEN [frame EXCEPT !["t1"].shared = @ \ {"analysis_progress"}]
                        ELSE frame
            /\ UNCHANGED <<files, instance, fsops, lock, pc, db, memory_lock>>

NextCopy ==
    \/ CopyGetStatus
    \/ CallerAssignsField
    \/ CallerMutatesNested
    \/ CopyAddErrorLog
    \/ CopyUpdateProgress

SpecCopy == InitCopy /\ [][NextCopy]_vars

\* C23: a caller that writes to the record get_status returned, its
\* error_log, analysis_progress and module_results included, changes neither
\* the manager's record, nor the document on disk, nor what get_status
\* returns afterwards.
C23_ReturnedCopyIsDetached ==
    [][ call'.op = "caller_modifies" =>
          /\ sessions' = sessions
          /\ disk' = disk
          /\ get_status(sessions', call'.session_id) = get_status(sessions, call'.session_id)
      ]_vars

---------------------------------------------------------------------------
(* Claims about set_status, update_progress and add_error_log as the       *)
(* manager's callers see them, in the single-threaded specification        *)

\* C26: set_status on a known session returns true and stores the status
\* passed, whatever the status of the session was and whichever of the five
\* statuses is passed: out of completed and error too, and from running to
\* paused and from paused to idle without the guards of pause and resume.
C26_SetStatusUnguarded ==
    [][ ( /\ call'.op = "set_status"
          /\ call'.session_id \in DOMAIN sessions
          /\ call'.status \in Statuses
          /\ "status" \notin DOMAIN call'.additional_data ) =>
            /\ ret' = RetBool(TRUE)
            /\ sessions'[call'.session_id]["status"] = call'.status ]_vars

\* a completed session was set running: the call returned true and the
\* record is running, while the document, whose rewrite could not be opened,
\* still shows the status the call found
C26_Witness ==
    /\ call.op = "set_status"
    /\ call.status = "running"
    /\ ret = RetBool(TRUE)
    /\ sessions[call.session_id]["status"] = "running"
    /\ disk[call.session_id].doc = "ok"
    /\ disk[call.session_id].data["status"] = "completed"

UnknownSessionOps == {"set_status", "update_progress", "add_error_log"}

\* C27: set_status, update_progress and add_error_log on a session id that
\* is not in the table return false and leave the table and the disk as
\* they were: no session, directory or document appears and no record of
\* another session changes.
C27_UnknownSessionRejected ==
    [][ (call'.op \in UnknownSessionOps /\ call'.session_id \notin DOMAIN sessions) =>
            /\ ret' = RetBool(FALSE)
            /\ sessions' = sessions
            /\ disk' = disk ]_vars

\* update_progress was called for an id that is not registered, next to a
\* registered session, and returned false
C27_Witness ==
    /\ call.op = "update_progress"
    /\ call.session_id \notin DOMAIN sessions
    /\ call.session_id \notin DOMAIN disk
    /\ ret = RetBool(FALSE)
    /\ DOMAIN sessions # {}

---------------------------------------------------------------------------
(* The specification of refine_search_query called by one thread, on       *)
(* tables of none, one and two sessions.                                   *)

\* queries: blank ones, and ones with blanks around and inside a word
QueryInputs == StrsUpTo({" ", "\t", "q"}, MaxQueryLen)

InitQuery ==
    /\ \E t \in ReadTables :
           /\ sessions = t.sessions
           /\ disk = t.disk
    /\ clock = 2
    /\ files = EmptyDict
    /\ instance = Constructed
    /\ db = EmptyDb
    /\ memory_lock = NoThread
    /\ call = NoCall
    /\ ret = NoRet
    /\ fsops = <<>>
    /\ lock = NoThread
    /\ pc = [t \in Threads |-> "idle"]
    /\ frame = [t \in Threads |-> EmptyDict]

RefineSearchQuery ==
    \E session_id \in SessionIds, new_query \in QueryInputs, outcome \in WriteOutcomes :
        LET o == refine_search_query(sessions, disk, clock, session_id, new_query, outcome)
        IN  /\ clock <= MaxClock
            /\ sessions' = o.sessions
            /\ disk' = o.disk
            /\ ret' = o.ret
            /\ call' = [op |-> "refine_search_query", session_id |-> session_id,
                        new_query |-> new_query]
            /\ clock' = clock + 1
            /\ UNCHANGED others

NextQuery == RefineSearchQuery

SpecQuery == InitQuery /\ [][NextQuery]_vars

\* C28: refine_search_query on a registered session with a query that is not
\* blank returns a success envelope whose new_query is the query without the
\* blanks around it and whose previous_query is the query the session had
\* before the call; afterwards the stored query is the new one.
C28_QueryUpdated ==
    [][ ( /\ call'.op = "refine_search_query"
          /\ call'.session_id \in DOMAIN sessions
          /\ strip(call'.new_query) # <<>> ) =>
            /\ ret'.status = "success"
            /\ ret'.new_query = strip(call'.new_query)
            /\ ret'.previous_query = sessions[call'.session_id]["query"]
            /\ sessions'[call'.session_id]["query"] = strip(call'.new_query)
      ]_vars

---------------------------------------------------------------------------
(* Claims about the facade's answers for sessions that are not registered, *)
(* and about what a pause leaves in the error log                          *)

FacadeOps == {"pause_workflow", "resume_workflow"}

\* the message of the envelope carries the session id
NamesSession(envelope, session_id) ==
    /\ Len(envelope.message) >= 2
    /\ envelope.message[2] = session_id

\* C29: a facade action that finishes for a session that is not in the table,
\* one that another thread deleted while the action was running included,
\* returns an envelope with status error whose message names the session id,
\* and changes neither the table nor the disk.
C29_UnregisteredIsNamedError ==
    [][ \A t \in Threads :
            ( /\ pc[t] \notin {"idle", "done"}
              /\ pc'[t] = "done"
              /\ frame[t].call.op \in FacadeOps
              /\ frame[t].call.session_id \notin DOMAIN sessions ) =>
                /\ frame'[t].ret.kind = "envelope"
                /\ frame'[t].ret.status = "error"
                /\ NamesSession(frame'[t].ret, frame[t].call.session_id)
                /\ sessions' = sessions
                /\ disk' = disk ]_vars

\* the entry's message ends with the reason
RecordsReason(entry, reason) ==
    /\ Len(entry.message) = 2
    /\ entry.message[2] = reason

---------------------------------------------------------------------------
(* The path specification: the directories and files the manager creates   *)
(* and removes, by their absolute paths, for session ids that are paths     *)
(* themselves, and the database file of the conversation store, which       *)
(* ConversationMemory.__init__ puts in the base analyses directory.  Here   *)
(* files maps each absolute path that exists to "dir" or "file", and disk   *)
(* is not used.                                                             *)

\* 'conversation_memory.db', abbreviated to one letter
conversation_memory_db == <<"m">>

\* self.db_path of a ConversationMemory made without a db_path
db_path == PathJoin(analyses_base_dir, conversation_memory_db)

\* the path and the directories above it, the root included
Ancestors(path) ==
    LET comps == Components(path)
    IN  { <<"/">> \o Join(SubSeq(comps, 1, k), <<"/">>) : k \in 0..Len(comps) }

\* the directory that holds path
ParentOf(path) ==
    LET comps == Components(path)
    IN  IF comps = <<>> THEN <<"/">>
        ELSE <<"/">> \o Join(SubSeq(comps, 1, Len(comps) - 1), <<"/">>)

\* path is below directory
Below(path, directory) == path # directory /\ directory \in Ancestors(path)

\* os.makedirs(path, exist_ok=True) raises when the path or a directory on
\* the way to it exists as a file
makedirs_raises(fs, path) ==
    \E a \in Ancestors(abspath(path)) : a \in DOMAIN fs /\ fs[a] = "file"

\* os.makedirs(path, exist_ok=True) when it does not raise
makedirs_path(fs, path) ==
    [a \in Ancestors(abspath(path)) |-> "dir"] @@ fs

\* open(path, 'w') and json.dump
write_file(fs, path) == (abspath(path) :> "file") @@ fs

\* os.path.exists(path)
path_exists(fs, path) == abspath(path) \in DOMAIN fs

\* os.rmdir(path) raises for a path whose last component is "." or ".."
rmdir_raises(path) ==
    LET comps == Split(path, "/")
    IN  comps[Len(comps)] \in { <<".">>, <<".", ".">> }

\* shutil.rmtree(path): everything below the directory is removed, then the
\* directory itself with os.rmdir, which raises for some paths
rmtree(fs, path) ==
    LET top == abspath(path)
        gone == { p \in DOMAIN fs : Below(p, top) }
                    \cup (IF rmdir_raises(path) THEN {} ELSE {top})
    IN  [p \in DOMAIN fs \ gone |-> fs[p]]

\* what is on disk when the two components have been constructed
BaseFiles ==
    [a \in Ancestors(abspath(analyses_base_dir)) |-> "dir"]
        @@ (abspath(db_path) :> "file")

PathsOut(tbl, fs, r) == [sessions |-> tbl, files |-> fs, ret |-> r]

\* register_session on the table and the file system
register_session_paths(tbl, fs, now, session_id, query) ==
    LET session_dir == PathJoin(analyses_base_dir, session_id)
        o == register_session(tbl, EmptyDict, now, session_id, query, EmptyDict,
                              ~makedirs_raises(fs, session_dir), "ok")
    IN  IF ~o.ret.value THEN PathsOut(tbl, fs, o.ret)
        ELSE LET made == makedirs_path(fs, session_dir)
                 config_path == o.sessions[session_id]["config_path"]
             IN  PathsOut(o.sessions,
                          IF path_exists(made, config_path)
                             /\ made[abspath(config_path)] = "dir"
                          THEN made ELSE write_file(made, config_path),
                          o.ret)

\* delete_session on the table and the file system
delete_session_paths(tbl, fs, session_id) ==
    IF session_id \notin DOMAIN tbl THEN PathsOut(tbl, fs, RetBool(FALSE))
    ELSE LET session_dir == record_session_dir(tbl[session_id])
             tbl1 == RemoveKey(tbl, session_id)
         IN  IF session_dir = <<>> \/ ~path_exists(fs, session_dir)
             THEN PathsOut(tbl1, fs, RetBool(TRUE))
             ELSE PathsOut(tbl1, rmtree(fs, session_dir),
                           RetBool(~rmdir_raises(session_dir)))

\* the store as sqlite3.connect(self.db_path) finds it: a database whose
\* file was removed has none of its rows
db_after(d, fs) == IF path_exists(fs, db_path) THEN d ELSE EmptyDb

\* whether the statements of the store can run: without the database file
\* there is no table, or no directory to create the file in
StoreOutcome(fs, working, failing) == IF path_exists(fs, db_path) THEN working ELSE failing

\* session ids: a name, the empty string, the directory itself and the one
\* above it, a nested name, an absolute path, a path out of the base
\* directory, and the name of the database file
IdInputs ==
    { <<"s">>, <<>>, <<".">>, <<".", ".">>, <<"s", "/", "b">>, <<"/", "x">>,
      <<".", ".", "/", "o">>, conversation_memory_db }

StoreOps == {"add_message", "update_session_summary", "clear_session_history"}

InitPaths ==
    /\ sessions = EmptyDict
    /\ disk = EmptyDict
    /\ files = BaseFiles
    /\ instance = Constructed
    /\ clock = 1
    /\ call = NoCall
    /\ ret = NoRet
    /\ fsops = <<>>
    /\ lock = NoThread
    /\ pc = [t \in Threads |-> "idle"]
    /\ frame = [t \in Threads |-> EmptyDict]
    /\ db = EmptyDb
    /\ memory_lock = NoThread

PathsRegisterSession ==
    \E session_id \in IdInputs :
        LET o == register_session_paths(sessions, files, clock, session_id, <<"q">>)
        IN  /\ clock <= MaxPathOps
            /\ sessions' = o.sessions
            /\ files' = o.files
            /\ ret' = o.ret
            /\ call' = [op |-> "register_session", session_id |-> session_id]
            /\ clock' = clock + 1
            /\ UNCHANGED <<disk, instance, fsops, lock, pc, frame, db, memory_lock>>

PathsDeleteSession ==
    \E session_id \in IdInputs :
        LET o == delete_session_paths(sessions, files, session_id)
        IN  /\ clock <= MaxPathOps
            /\ sessions' = o.sessions
            /\ files' = o.files
            /\ db' = db_after(db, o.files)
            /\ ret' = o.ret
            /\ call' = [op |-> "delete_session", session_id |-> session_id]
            /\ clock' = clock + 1
            /\ UNCHANGED <<disk, instance, fsops, lock, pc, frame, memory_lock>>

PathsStoreCall ==
    \E session_id \in IdInputs, op \in StoreOps :
        LET o == CASE op = "add_message" ->
                          add_message(db, clock, session_id,
                                      [ role |-> "user", message |-> <<"h", "i">>,
                                        metadata |-> <<>>, tokens_used |-> 0,
                                        model_used |-> <<>>, tool_calls |-> <<>> ],
                                      StoreOutcome(files, "ok", "insert_fails"))
                   [] op = "update_session_summary" ->
                          update_session_summary(db, clock, session_id, <<"s", "u", "m">>,
                                                 StoreOutcome(files, "ok", "fails"))
                   [] op = "clear_session_history" ->
                          clear_session_history(db, session_id,
                                                StoreOutcome(files, "ok", "fails"))
        IN  /\ clock <= MaxPathOps
            /\ db' = o.db
            /\ ret' = o.ret
            /\ call' = [op |-> op, session_id |-> session_id]
            /\ clock' = clock + 1
            /\ UNCHANGED <<sessions, disk, files, instance, fsops, lock, pc, frame, memory_lock>>

NextPaths == PathsRegisterSession \/ PathsDeleteSession \/ PathsStoreCall

SpecPaths == InitPaths /\ [][NextPaths]_vars

\* C31: delete_session leaves the turns and the rollup of the session in the
\* conversation store as they were; add_message, update_session_summary and
\* clear_session_history leave the session table and the files of every
\* session as they were, and return true for a registered session and for one
\* that is not registered alike.
C31_StoresAreIndependent ==
    [][ /\ call'.op = "delete_session" =>
               /\ TurnsOf(db', call'.session_id) = TurnsOf(db, call'.session_id)
               /\ get_session_summary(db', call'.session_id, "ok")
                      = get_session_summary(db, call'.session_id, "ok")
        /\ call'.op \in StoreOps =>
               /\ sessions' = sessions
               /\ files' = files
               /\ ret' = RetBool(TRUE) ]_vars


\* the base analyses directory, as an absolute path
BaseDir == abspath(analyses_base_dir)

\* the paths a step creates or removes
PathsChanged == (DOMAIN files \ DOMAIN files') \cup (DOMAIN files' \ DOMAIN files)

\* C39: the directory of every session that register_session accepts is a
\* direct child of the base analyses directory, and every path that
\* register_session creates and delete_session removes is below the base
\* directory: nothing outside it, and not the base directory itself.
C39_SessionDirIsChildOfBase ==
    [][ /\ (call'.op = "register_session" /\ ret' = RetBool(TRUE)) =>
               ParentOf(abspath(sessions'[call'.session_id]["session_dir"])) = BaseDir
        /\ call'.op \in {"register_session", "delete_session"} =>
               \A p \in PathsChanged : Below(p, BaseDir) ]_vars

---------------------------------------------------------------------------
(* Claims about the document on disk *)

\* C32 as stated: every document written for a session holds the internal
\* path fields session_dir and config_path of its record.
C32_DocumentHoldsPaths ==
    \A s \in DOMAIN disk :
        disk[s].doc = "ok" => InternalFields \subseteq DOMAIN disk[s].data

\* C32, amended: no document on disk holds session_dir or config_path, and
\* the document a mutating operation writes is the record in memory without
\* these two fields (and without thread and lock): the path fields exist in
\* memory only.
C32_DocumentOmitsPaths ==
    [][ \A s \in DOMAIN disk' :
            /\ disk'[s].doc = "ok" => DOMAIN disk'[s].data \cap InternalFields = {}
            /\ ( /\ disk'[s].doc = "ok"
                 /\ (s \notin DOMAIN disk \/ disk'[s] # disk[s]) ) =>
                   disk'[s].data
                       = Without(sessions'[s], InternalFields \cup {"thread", "lock"})
      ]_vars

\* set_status has rewritten the document of a session: the record in memory
\* has both path fields and the document, which shows the new status, has
\* neither
C32_Witness ==
    /\ call.op = "set_status"
    /\ ret = RetBool(TRUE)
    /\ call.session_id \in DOMAIN disk
    /\ disk[call.session_id].doc = "ok"
    /\ disk[call.session_id].data["status"] = call.status
    /\ disk[call.session_id].data["updated_at"] = sessions[call.session_id]["updated_at"]
    /\ InternalFields \subseteq DOMAIN sessions[call.session_id]
    /\ DOMAIN disk[call.session_id].data \cap InternalFields = {}

---------------------------------------------------------------------------
(* The construction specification: threads that call SessionStateManager() *)
(* in a process whose _instance is still None, statement by statement.     *)
(* The lock of __new__ is the class attribute _lock, the one the methods    *)
(* take as self._lock.  sessions is the table of the object once it has     *)
(* one.                                                                     *)

\* the directories of the base directory that the load has not read yet
Unread(t) == DOMAIN disk \ frame[t].read

\* what a constructor call hands to its caller: the object as it is then
Snapshot == [has_sessions |-> instance.has_sessions, loaded |-> instance.loaded,
             sessions |-> sessions]

NewFrame == [ret |-> NoRet, n |-> 0, read |-> {}]

InitNew ==
    /\ \E t \in ReadTables : disk = t.disk
    /\ sessions = EmptyDict
    /\ instance = NoInstance
    /\ files = EmptyDict
    /\ clock = 2
    /\ call = NoCall
    /\ ret = NoRet
    /\ fsops = <<>>
    /\ lock = NoThread
    /\ db = EmptyDb
    /\ memory_lock = NoThread
    /\ pc = [t \in Threads |-> "idle"]
    /\ frame = [t \in Threads |-> NewFrame]

NewUnchanged == <<disk, files, clock, call, ret, fsops, db, memory_lock>>

\* SessionStateManager() is called
NewStart(t) ==
    /\ pc[t] \in {"idle", "done"}
    /\ frame[t].n < MaxNewCalls
    /\ frame' = [frame EXCEPT ![t] = [ret |-> NoRet, n |-> @.n + 1, read |-> {}]]
    /\ Goto(t, "new_check")
    /\ UNCHANGED <<sessions, instance, lock, NewUnchanged>>

\* line 39: "if cls._instance is None", without the lock
NewCheck(t) ==
    /\ pc[t] = "new_check"
    /\ Goto(t, IF instance.made THEN "new_return" ELSE "new_lock")
    /\ UNCHANGED <<sessions, instance, lock, frame, NewUnchanged>>

\* line 40: "with cls._lock"
NewAcquire(t) ==
    /\ pc[t] = "new_lock"
    /\ lock = NoThread
    /\ lock' = t
    /\ Goto(t, "new_check2")
    /\ UNCHANGED <<sessions, instance, frame, NewUnchanged>>

\* line 41: "if cls._instance is None", under the lock
NewCheck2(t) ==
    /\ pc[t] = "new_check2"
    /\ IF instance.made
       THEN lock' = NoThread /\ Goto(t, "new_return")
       ELSE UNCHANGED lock /\ Goto(t, "new_alloc")
    /\ UNCHANGED <<sessions, instance, frame, NewUnchanged>>

\* line 42: cls._instance = super().__new__(cls)
NewAlloc(t) ==
    /\ pc[t] = "new_alloc"
    /\ instance' = [instance EXCEPT !.made = TRUE, !.objects = @ + 1]
    /\ Goto(t, "new_sessions")
    /\ UNCHANGED <<sessions, lock, frame, NewUnchanged>>

\* line 43: cls._instance.sessions = {}
NewSessions(t) ==
    /\ pc[t] = "new_sessions"
    /\ instance' = [instance EXCEPT !.has_sessions = TRUE]
    /\ sessions' = EmptyDict
    /\ Goto(t, "new_load")
    /\ UNCHANGED <<lock, frame, NewUnchanged>>

\* line 45: cls._instance._load_sessions_from_disk() is entered
NewLoad(t) ==
    /\ pc[t] = "new_load"
    /\ instance' = [instance EXCEPT !.loads = @ + 1]
    /\ Goto(t, "new_load_loop")
    /\ UNCHANGED <<sessions, lock, frame, NewUnchanged>>

\* one round of the loop of _load_sessions_from_disk, over the directories
\* in the order os.listdir gives them
NewLoadOne(t) ==
    /\ pc[t] = "new_load_loop"
    /\ \E session_id \in Unread(t) :
           /\ sessions' = IF disk[session_id].doc = "ok"
                          THEN (session_id :>
                                    loaded_session_data(session_id, disk[session_id].data,
                                                        clock)) @@ sessions
                          ELSE sessions
           /\ frame' = [frame EXCEPT ![t].read = @ \cup {session_id}]
    /\ UNCHANGED <<instance, lock, pc, NewUnchanged>>

\* the loop is over, __new__ leaves the with block
NewLoaded(t) ==
    /\ pc[t] = "new_load_loop"
    /\ Unread(t) = {}
    /\ instance' = [instance EXCEPT !.loaded = TRUE]
    /\ lock' = NoThread
    /\ Goto(t, "new_return")
    /\ UNCHANGED <<sessions, frame, NewUnchanged>>

\* line 46: return cls._instance
NewReturn(t) ==
    /\ pc[t] = "new_return"
    /\ Return(t, Snapshot)
    /\ UNCHANGED <<sessions, instance, lock, NewUnchanged>>

NextNew ==
    \E t \in Threads :
        \/ NewStart(t)
        \/ NewCheck(t)
        \/ NewAcquire(t)
        \/ NewCheck2(t)
        \/ NewAlloc(t)
        \/ NewSessions(t)
        \/ NewLoad(t)
        \/ NewLoadOne(t)
        \/ NewLoaded(t)
        \/ NewReturn(t)

SpecNew == InitNew /\ [][NextNew]_vars

\* C33: under every interleaving of constructor calls one object is made
\* and the startup load runs once, and every constructor call returns the
\* object when it has its session table and the load has read every
\* document on disk into it.
C33_ReturnsLoadedSingleton ==
    /\ instance.objects <= 1
    /\ instance.loads <= 1
    /\ \A t \in Threads :
           pc[t] = "done" =>
               /\ instance.objects = 1
               /\ instance.loads = 1
               /\ frame[t].ret.has_sessions
               /\ frame[t].ret.loaded
               /\ frame[t].ret.sessions = _load_sessions_from_disk(disk, clock)

---------------------------------------------------------------------------
(* EnhancedAIManager: the two text-generation entry points.  The backend   *)
(* they call is an opaque capability that answers with a text or raises.   *)

ConnectionErrors == {"ConnectionError", "TimeoutError"}

ParameterErrors == {"ValueError", "KeyError"}

\* an exception of a class that none of the first two except clauses names
OtherErrors == {"RuntimeError"}

\* generate_ai_response / generate_ai_response_sync: what a call comes to
BackendOutcomes ==
    { RetRecord(text) : text \in { <<>>, <<"o", "k">> } }
        \cup { RetRaise(e) : e \in ConnectionErrors \cup ParameterErrors \cup OtherErrors }

generate_ai_response(prompt, options, outcome) == outcome

GenOut(r, logged) == [ret |-> r, logged |-> logged]

\* a plausible slip: the last clause answers with a text, as generate_response does
generate_text_Swallow(prompt, options, outcome) ==
    LET r == generate_ai_response(prompt, options, outcome)
    IN  IF r.kind # "raise" THEN GenOut(r, <<>>)
        ELSE IF r.error \in ConnectionErrors
        THEN GenOut(RetRaise(r.error), <<"Erro de conexao ao gerar texto">>)
        ELSE IF r.error \in ParameterErrors
        THEN GenOut(RetRaise(r.error), <<"Erro de parametros ao gerar texto">>)
        ELSE GenOut(RetRecord(<<"Erro interno ao gerar resposta">>),
                    <<"Erro inesperado ao gerar texto">>)

\* each except clause logs and re-raises the exception it caught
generate_text(prompt, options, outcome) ==
    LET r == generate_ai_response(prompt, options, outcome)
    IN  IF r.kind # "raise" THEN GenOut(r, <<>>)
        ELSE IF r.error \in ConnectionErrors
        THEN GenOut(RetRaise(r.error), <<"Erro de conexao ao gerar texto">>)
        ELSE IF r.error \in ParameterErrors
        THEN GenOut(RetRaise(r.error), <<"Erro de parametros ao gerar texto">>)
        ELSE GenOut(RetRaise(r.error), <<"Erro inesperado ao gerar texto">>)

generate_text_sync(prompt, options, outcome) ==
    LET r == generate_ai_response(prompt, options, outcome)
    IN  IF r.kind # "raise" THEN GenOut(r, <<>>)
        ELSE IF r.error \in ConnectionErrors
        THEN GenOut(RetRaise(r.error), <<"Erro de conexao ao gerar texto (sync)">>)
        ELSE IF r.error \in ParameterErrors
        THEN GenOut(RetRaise(r.error), <<"Erro de parametros ao gerar texto (sync)">>)
        ELSE GenOut(RetRaise(r.error), <<"Erro inesperado ao gerar texto (sync)">>)

PromptInputs == { <<>>, <<"p">> }

\* system_prompt and model_override, <<>> for None; max_tokens and temperature
\* are left at None
OptionInputs ==
    [ system_prompt : { <<>>, <<"s">> }, model_override : { <<>>, <<"m">> } ]

InitGen ==
    /\ sessions = EmptyDict
    /\ disk = EmptyDict
    /\ files = EmptyDict
    /\ instance = Constructed
    /\ clock = 0
    /\ call = NoCall
    /\ ret = NoRet
    /\ fsops = <<>>
    /\ lock = NoThread
    /\ db = EmptyDb
    /\ memory_lock = NoThread
    /\ pc = [t \in Threads |-> "idle"]
    /\ frame = [t \in Threads |-> EmptyDict]

GenUnchanged == <<sessions, disk, files, instance, fsops, lock, db, memory_lock, pc, frame>>

GenerateText ==
    \E prompt \in PromptInputs, options \in OptionInputs, outcome \in BackendOutcomes :
        LET o == generate_text(prompt, options, outcome)
        IN  /\ clock < MaxGenCalls
            /\ ret' = o.ret
            /\ call' = [op |-> "generate_text", prompt |-> prompt, options |-> options,
                        backend |-> outcome,
                        logged |-> o.logged]
            /\ clock' = clock + 1
            /\ UNCHANGED GenUnchanged

GenerateTextSync ==
    \E prompt \in PromptInputs, options \in OptionInputs, outcome \in BackendOutcomes :
        LET o == generate_text_sync(prompt, options, outcome)
        IN  /\ clock < MaxGenCalls
            /\ ret' = o.ret
            /\ call' = [op |-> "generate_text_sync", prompt |-> prompt,
                        options |-> options, backend |-> outcome, logged |-> o.logged]
            /\ clock' = clock + 1
            /\ UNCHANGED GenUnchanged

NextGen == GenerateText \/ GenerateTextSync

SpecGen == InitGen /\ [][NextGen]_vars

\* C34: when the backend raises, generate_text and generate_text_sync raise
\* an error of the same class to their caller, whichever except clause
\* caught it, and it is logged; what they return as a text is a text the
\* backend returned.
C34_BackendFailureIsRaised ==
    [][ call'.op \in {"generate_text", "generate_text_sync"} =>
            /\ call'.backend.kind = "raise" =>
                   /\ ret' = RetRaise(call'.backend.error)
                   /\ call'.logged # <<>>
            /\ ret'.kind # "raise" =>
                   /\ call'.backend.kind # "raise"
                   /\ ret' = call'.backend ]_vars

\* the backend raised an exception that only the last except clause
\* catches, and generate_text raised it to its caller
C34_Witness ==
    /\ call.op = "generate_text"
    /\ call.backend = RetRaise("RuntimeError")
    /\ ret = RetRaise("RuntimeError")
    /\ call.logged = <<"Erro inesperado ao gerar texto">>

---------------------------------------------------------------------------
(* Claims about reading the history with metadata and about the summary *)

\* C35: get_conversation_history with include_metadata returns the turns
\* that the same call without it returns, in the same order and with the
\* same fields, and metadata as the only field it may add: a history that
\* is not empty does not come back empty because metadata was asked for.
C35_MetadataKeepsHistory ==
    [][ ( /\ call'.op = "get_conversation_history"
          /\ call'.include_metadata
          /\ call'.store = "ok" ) =>
            LET plain == get_conversation_history(db, call'.session_id, call'.limit,
                                                  FALSE, "ok").value
                full == ret'.value
            IN  /\ Len(full) = Len(plain)
                /\ \A i \in 1..Len(plain) :
                       /\ DOMAIN full[i] \ {"metadata"} = DOMAIN plain[i] \ {"metadata"}
                       /\ \A k \in DOMAIN plain[i] \ {"metadata"} : full[i][k] = plain[i][k]
      ]_vars

\* C36: after update_session_summary(s, text) has returned true,
\* get_session_summary(s) returns a rollup whose summary is text, for a
\* session with turns and for one without.
C36_SummaryIsReadBack ==
    [][ (call'.op = "update_session_summary" /\ ret' = RetBool(TRUE)) =>
            LET rollup == get_session_summary(db', call'.session_id, "ok")
            IN  /\ rollup.kind = "record"
                /\ rollup.value.summary = call'.summary ]_vars

---------------------------------------------------------------------------
(* Claims about refine_search_query next to a call that changes the status *)

\* C37: when refine_search_query and a set_status call of another thread on
\* the same session have both returned, each with success, the status of
\* the session is the one the set_status call wrote: refine_search_query
\* does not write back the status it read before that call.
C37_QueryUpdateKeepsStatus ==
    \A t, u \in Threads :
        ( /\ pc[t] = "done"
          /\ pc[u] = "done"
          /\ frame[t].n = 1
          /\ frame[u].n = 1
          /\ frame[t].call.op = "refine_search_query"
          /\ frame[t].ret.kind = "envelope"
          /\ frame[t].ret.status = "success"
          /\ frame[u].call.op = "set_status"
          /\ frame[u].ret = RetBool(TRUE)
          /\ frame[u].call.session_id = frame[t].call.session_id
          /\ frame[t].call.session_id \in DOMAIN sessions ) =>
            sessions[frame[t].call.session_id]["status"] = frame[u].call.status

---------------------------------------------------------------------------
(* Claims about a deletion that fails *)

\* C38: when delete_session returns false, for an unknown id or because the
\* directory could not be removed, the table holds the session exactly if
\* it did before the call, and the table and the disk agree on whether the
\* session exists.
C38_FailedDeleteChangesNothing ==
    [][ (call'.op = "delete_session" /\ ret' = RetBool(FALSE)) =>
            /\ (call'.session_id \in DOMAIN sessions')
                   <=> (call'.session_id \in DOMAIN sessions)
            /\ (call'.session_id \in DOMAIN sessions')
                   <=> (call'.session_id \in DOMAIN disk') ]_vars

---------------------------------------------------------------------------
(* The lock specification: two threads that each construct the manager and *)
(* then call operations of the manager and of the conversation store, one  *)
(* statement block at a time, with every outcome the environment can give  *)
(* a block.  lock is SessionStateManager._lock, which __new__ and every    *)
(* locked method of the manager take; memory_lock is the lock of the       *)
(* ConversationMemory instance.                                            *)

\* the methods of the store that are called; get_context_for_ai takes no
\* lock itself and calls get_conversation_history, which does
StoreCallOps ==
    { "add_message", "get_conversation_history", "get_context_for_ai",
      "get_session_summary", "update_session_summary", "clear_session_history" }

LockCalls ==
    { [op |-> "set_status", session_id |-> <<"s">>, status |-> "running"] }
    \cup { [op |-> o, session_id |-> <<"s">>] :
               o \in { "get_status", "delete_session" } \cup StoreCallOps }

\* the method calls started so far, the constructor calls not counted
MethodCalls ==
    (IF frame["t1"].n > 0 THEN frame["t1"].n - 1 ELSE 0)
        + (IF frame["t2"].n > 0 THEN frame["t2"].n - 1 ELSE 0)

LocksFrame == [call |-> NoCall, ret |-> NoRet, n |-> 0, read |-> {}]

InitLocks ==
    /\ sessions = EmptyDict
    /\ disk = Registered1.disk
    /\ instance = NoInstance
    /\ files = EmptyDict
    /\ clock = 2
    /\ call = NoCall
    /\ ret = NoRet
    /\ fsops = <<>>
    /\ lock = NoThread
    /\ db = EmptyDb
    /\ memory_lock = NoThread
    /\ pc = [t \in Threads |-> "idle"]
    /\ frame = [t \in Threads |-> LocksFrame]

\* a thread's first call is SessionStateManager(); with the object it got it
\* calls a method of the manager or of the store
LocksStart(t) ==
    /\ pc[t] \in {"idle", "done"}
    /\ IF frame[t].n = 0
       THEN /\ frame' = [frame EXCEPT ![t] =
                            [call |-> [op |-> "SessionStateManager"], ret |-> NoRet,
                             n |-> 1, read |-> {}]]
            /\ Goto(t, "new_check")
       ELSE /\ MethodCalls < MaxLockCalls
            /\ \E c \in LockCalls :
                   /\ frame' = [frame EXCEPT ![t] =
                                    [call |-> c, ret |-> NoRet, n |-> @.n + 1, read |-> {}]]
                   /\ Goto(t, IF c.op \in StoreCallOps THEN "cm_lock" ELSE "m_lock")
    /\ UNCHANGED <<sessions, disk, files, instance, db, memory_lock, clock, call, ret, fsops, lock>>

\* "with self._lock:" of a method of the store is entered
StoreAcquire(t) ==
    /\ pc[t] = "cm_lock"
    /\ memory_lock = NoThread
    /\ memory_lock' = t
    /\ Goto(t, "cm_body")
    /\ UNCHANGED <<sessions, disk, files, instance, db, clock, call, ret, fsops, lock, frame>>

\* the outcomes the environment can give the body of a method of the store
StoreOutcomes(c) == IF c.op = "add_message" THEN AppendOutcomes ELSE QueryOutcomes

\* what the body of a method of the store does
StoreEffect(c, outcome) ==
    CASE c.op = "add_message" ->
             add_message(db, clock, c.session_id,
                         [ role |-> "user", message |-> <<"h", "i">>, metadata |-> <<>>,
                           tokens_used |-> 0, model_used |-> <<>>, tool_calls |-> <<>> ],
                         outcome)
      [] c.op = "get_conversation_history" ->
             StoreOut(db, get_conversation_history(db, c.session_id, 50, FALSE, outcome))
      [] c.op = "get_session_summary" ->
             StoreOut(db, get_session_summary(db, c.session_id, outcome))
      [] c.op = "update_session_summary" ->
             update_session_summary(db, clock, c.session_id, <<"s", "u", "m">>, outcome)
      [] c.op = "get_context_for_ai" ->
             StoreOut(db, get_conversation_history(db, c.session_id, 10, FALSE, outcome))
      [] c.op = "clear_session_history" ->
             clear_session_history(db, c.session_id, outcome)

\* a plausible slip: the lock is taken with acquire() and released by a
\* release() that an exception skips
LockAfter_KeptOnFailure(t, outcome) == IF outcome = "ok" THEN NoThread ELSE t

\* the holder of the lock after the with block is left, by its end, by a
\* return or by an exception
LockAfter(t, outcome) == NoThread

\* the body of a method of the store, and the release of its lock;
\* get_context_for_ai goes on with what get_conversation_history returned
StoreBody(t) ==
    /\ pc[t] = "cm_body"
    /\ \E outcome \in StoreOutcomes(frame[t].call) :
           LET o == StoreEffect(frame[t].call, outcome)
           IN  /\ db' = o.db
               /\ memory_lock' = LockAfter(t, outcome)
               /\ IF frame[t].call.op = "get_context_for_ai"
                  THEN /\ frame' = [frame EXCEPT ![t] = ("messages" :> o.ret.value) @@ @]
                       /\ Goto(t, "ctx_build")
                  ELSE Return(t, o.ret)
    /\ clock' = IF frame[t].call.op \in {"add_message", "update_session_summary"}
                THEN clock + 1 ELSE clock
    /\ UNCHANGED <<sessions, disk, files, instance, call, ret, fsops, lock>>

\* get_context_for_ai, lines 246-256: the context is built from the
\* messages, without the lock
ContextBuild(t) ==
    /\ pc[t] = "ctx_build"
    /\ Return(t, RetRecord([i \in 1..Len(frame[t].messages) |->
                               [ role |-> IF frame[t].messages[i].role = "user"
                                          THEN "user" ELSE "assistant",
                                 content |-> frame[t].messages[i].message ]]))
    /\ UNCHANGED <<sessions, disk, files, instance, db, memory_lock, clock, call, ret, fsops, lock>>

\* what a thread does once it has started a call
LocksStep(t) ==
    \/ NewCheck(t)
    \/ NewAcquire(t)
    \/ NewCheck2(t)
    \/ NewAlloc(t)
    \/ NewSessions(t)
    \/ NewLoad(t)
    \/ NewLoadOne(t)
    \/ NewLoaded(t)
    \/ NewReturn(t)
    \/ Acquire(t)
    \/ ManagerBody(t)
    \/ DeleteFromTable(t)
    \/ DeleteFromDisk(t)
    \/ StoreAcquire(t)
    \/ StoreBody(t)
    \/ ContextBuild(t)

NextLocks == \E t \in Threads : LocksStart(t) \/ LocksStep(t)

\* every thread that can take a step of its call takes one in the end
SpecLocks ==
    InitLocks /\ [][NextLocks]_vars /\ \A t \in Threads : WF_vars(LocksStep(t))

\* the positions at which a thread waits for the manager's lock
ManagerLockLabels == DOMAIN LockLabels \cup {"new_lock"}

\* a thread that is not inside a call holds no lock, and a thread that waits
\* for a lock is not the one that holds it
LockDiscipline ==
    \A t \in Threads :
        /\ pc[t] \in {"idle", "done"} => (lock # t /\ memory_lock # t)
        /\ pc[t] \in ManagerLockLabels => lock # t
        /\ pc[t] = "cm_lock" => memory_lock # t

\* C40: every path out of a locked block of the manager, of its constructor
\* and of the store releases the lock, failure paths included; no thread
\* waits for a lock it holds; and under fair scheduling every call that was
\* started returns.
C40_EveryCallReturns ==
    /\ [](LockDiscipline)
    /\ \A t \in Threads : (pc[t] \notin {"idle", "done"}) ~> (pc[t] = "done")

\* add_message failed in one thread and returned false with the lock
\* released: the other thread is inside a locked block of the store
C40_Witness ==
    \E t, u \in Threads :
        /\ pc[t] = "done"
        /\ frame[t].call.op = "add_message"
        /\ frame[t].ret = RetBool(FALSE)
        /\ pc[u] = "cm_body"
        /\ memory_lock = u

===========================================================================
